---------------------------- MODULE Spec2Model ----------------------------
(***************************************************************************)
(* Places Alarm (Orbits): the top-level controller of src/App.tsx as a     *)
(* state machine.  The controller's React state is the state of the model; *)
(* every event handler is one action; the proximity effect is the action   *)
(* ProximityCheck, which React runs after every commit that changed one of *)
(* its dependencies and before the next event is handled.                  *)
(*                                                                         *)
(* Text (names, notes, identifiers, messages) is a sequence of one-char    *)
(* strings, so that trim(), toString() and template literals are computed. *)
(* Coordinates lie on one meridian, their latitude counted in metres of    *)
(* arc, so that the haversine distance of two of them is the absolute      *)
(* difference of the latitudes.  Date.now() is the variable dateNow; time  *)
(* passes in steps of TimeStep milliseconds, between any two events or not *)
(* at all.                                                                 *)
(***************************************************************************)
EXTENDS Integers, Sequences, FiniteSets

(***************************************************************************)
(* Bounds of the model.                                                    *)
(***************************************************************************)
\* number of places created in one run
MaxPlaces == 2
\* number of steps of one run: events handled that change a place, the
\* location, an alert or the note being edited, and steps of the clock
MaxEvents == 6

\* null and undefined, as a text and as a coordinate
Null == << "null" >>
NullCoord == [ lat |-> -1, lng |-> -1 ]

(***************************************************************************)
(* Program constants.                                                      *)
(***************************************************************************)
PROXIMITY_THRESHOLD_METERS == 200
SNOOZE_DURATION == 5 * 60 * 1000

\* the clock is sampled every half snooze period
TimeStep == SNOOZE_DURATION \div 2

\* types.ts, enum PlaceCategory
PlaceCategory == {"Generic", "Work", "Home", "Shop", "Food", "Health", "Travel"}

\* constants: the icon of a category
CATEGORY_ICONS ==
    [ Generic |-> "MapPin", Work |-> "Briefcase", Home |-> "Home", Shop |-> "ShoppingBag",
      Food |-> "Utensils", Health |-> "HeartPulse", Travel |-> "Plane" ]

\* CATEGORY_COLORS with the colour of Health given to Food as well
CATEGORY_COLORS_SHARED ==
    [ Generic |-> "bg-gray-500", Work |-> "bg-blue-600", Home |-> "bg-green-600",
      Shop |-> "bg-purple-600", Food |-> "bg-red-500", Health |-> "bg-red-500",
      Travel |-> "bg-cyan-500" ]

\* constants: the colour of a category
CATEGORY_COLORS ==
    [ Generic |-> "bg-gray-500", Work |-> "bg-blue-600", Home |-> "bg-green-600",
      Shop |-> "bg-purple-600", Food |-> "bg-orange-500", Health |-> "bg-red-500",
      Travel |-> "bg-cyan-500" ]

(***************************************************************************)
(* Text.                                                                   *)
(***************************************************************************)
EmptyStr == << >>

IsWhiteSpace(ch) == ch \in {" ", "\t", "\n"}

RECURSIVE TrimStart(_)
TrimStart(s) ==
    IF s # << >> /\ IsWhiteSpace(Head(s)) THEN TrimStart(Tail(s)) ELSE s

RECURSIVE TrimEnd(_)
TrimEnd(s) ==
    IF s # << >> /\ IsWhiteSpace(s[Len(s)])
    THEN TrimEnd(SubSeq(s, 1, Len(s) - 1))
    ELSE s

\* trim that keeps the white space at the end
TrimKeepingEnd(s) == TrimStart(s)

\* String.prototype.trim
Trim(s) == TrimEnd(TrimStart(s))

DigitChar(d) == CASE d = 0 -> "0" [] d = 1 -> "1" [] d = 2 -> "2" [] d = 3 -> "3"
                  [] d = 4 -> "4" [] d = 5 -> "5" [] d = 6 -> "6" [] d = 7 -> "7"
                  [] d = 8 -> "8" [] d = 9 -> "9"

\* Number.prototype.toString of a non-negative integer
RECURSIVE toString(_)
toString(n) ==
    IF n < 10 THEN << DigitChar(n) >>
    ELSE Append(toString(n \div 10), DigitChar(n % 10))

NewPlaceName == << "N", "e", "w", " ", "P", "l", "a", "c", "e" >>

\* `You are near ${name}!`
AlertMessage(name) ==
    << "Y", "o", "u", " ", "a", "r", "e", " ", "n", "e", "a", "r", " " >>
        \o name \o << "!" >>

(***************************************************************************)
(* Geometry.                                                               *)
(***************************************************************************)
\* latitudes (metres of arc) of the points used: 0, one radius further
\* (the boundary), two radii further
Latitudes == {0, 200, 400}
Coords == [lat : Latitudes, lng : {0}]
\* where places are put: two points two radii apart, so that the user is
\* inside one place, the other or (on the boundary of) both
PlaceCoords == [lat : {0, 400}, lng : {0}]

Abs(x) == IF x < 0 THEN -x ELSE x

\* haversine; for two points of one meridian c = |dLat| and R * c is the
\* length of the arc between them
calculateDistance(coord1, coord2) == Abs(coord2.lat - coord1.lat)

VARIABLES
    dateNow,            \* Date.now()
    apiKey,             \* process.env.API_KEY is set
    registered,         \* the watches registered with navigator.geolocation:
                        \* [id, enableHighAccuracy]
    watchId,            \* let watchId: the identifier watchPosition returned last
    initialFetch,       \* the promise of getCurrentLocation() made at mount
    audioBlocked,       \* creating or starting the AudioContext throws
    speechAvailable,    \* 'speechSynthesis' in window
    notificationGranted,\* "Notification" in window && Notification.permission === "granted"
    isSpeaking,         \* let isSpeaking
    timers,             \* the messages of the setTimeout callbacks not yet run
    utterances,         \* the queue of speechSynthesis: [message, speaking]
    notifications,      \* the bodies of the notifications raised
    tones,              \* number of tones played
    searchQuery,        \* Sidebar: useState("")
    isSearching,
    searchResults,      \* useState<SearchResult[]>
    searchCalls,        \* the requests to the search provider not yet settled
    lastSettled,        \* history: the kind of the response handled last
    searchObs,          \* history: the number of searches submitted, the number of the
                        \* search the stored results come from, and the number of
                        \* searches submitted when a result was chosen last
    editingNameId, tempName,
    places,             \* useState<Place[]>
    userLocation,       \* useState<Coordinate | null>
    isLoadingLocation,
    activeAlerts,       \* useState<Alert[]>
    alertedPlaceIds,    \* useState<Set<string>>
    snoozedPlaceIds,    \* useState<Record<string, number>>: a function on the ids set
    selectedPlaceId,
    draftLocation, draftName, draftNote,
    editingNoteId, tempNote,
    aiCalls,            \* the calls of suggestCategoryAndNotes that have not settled
    effectPending,      \* a dependency of the proximity effect changed in the last commit
    created,            \* number of places created so far
    events,             \* number of events handled so far
    obs                 \* history: what the evaluations did for each place created

vars == << dateNow, apiKey, registered, watchId, initialFetch, audioBlocked, speechAvailable,
           notificationGranted, isSpeaking, timers, utterances, notifications, tones,
           searchQuery, isSearching, searchResults, searchCalls, lastSettled, searchObs,
           editingNameId, tempName, places, userLocation, isLoadingLocation, activeAlerts,
           alertedPlaceIds, snoozedPlaceIds, selectedPlaceId,
           draftLocation, draftName, draftNote, editingNoteId, tempNote, aiCalls,
           effectPending, created, events, obs >>

\* an event is handled: the effects of the last commit have run
HandleEvent ==
    /\ ~effectPending
    /\ events < MaxEvents
    /\ events' = events + 1

alertVars == << activeAlerts, alertedPlaceIds, snoozedPlaceIds >>
draftVars == << draftLocation, draftName, draftNote >>
editVars == << editingNoteId, tempNote >>
watchVars == << registered, watchId >>
\* state the handlers of places, drafts and alerts leave alone
\* what the browser offers for the delivery of an alert
deliveryVars == << audioBlocked, speechAvailable, notificationGranted >>
soundVars == << isSpeaking, timers, utterances, notifications, tones >>
searchVars == << searchQuery, isSearching, searchResults, searchCalls, lastSettled,
                 searchObs >>
nameVars == << editingNameId, tempName >>
fetchVars == << initialFetch >>
sideVars == << watchVars, fetchVars, deliveryVars, soundVars, searchVars, nameVars >>

(***************************************************************************)
(* History of one place, kept for the claims about sequences of            *)
(* evaluations.  A stay is a maximal run of evaluations that found the     *)
(* user inside the place's radius.                                         *)
(***************************************************************************)
ObsInit ==
    [ id         |-> Null,     \* the place's identifier
      ai         |-> "none",   \* how the place's suggestion call settled: text, noText, throws
      first      |-> "no",     \* pending: created with the location known and not yet
                               \* evaluated; done: the last evaluation was its first
      lastEval   |-> "none",   \* what the last evaluation of the place saw: in, out
      evals      |-> 0,        \* evaluations of the current stay, counted up to 3
      alerts     |-> 0,        \* alerts they created for the place, counted up to 2
      fresh      |-> FALSE,    \* the stay's first evaluation found no card, flag or snooze
      entryAlert |-> FALSE,    \* the stay's first evaluation created an alert
      act        |-> "none",   \* dismiss or snooze of the place's id during the stay
      prevAlert  |-> FALSE,    \* the stay before began with an alert and had no snooze
      dis        |-> "no",     \* quiet: dismissed inside; realert: alerted again since
      snz        |-> "no",     \* wait: snoozed inside; hit, miss: evaluation after expiry
      mv         |-> "no" ]    \* moved; hit, miss: the evaluation after the move

Min(a, b) == IF a < b THEN a ELSE b

(***************************************************************************)
(* State read by the handlers and the effect.                              *)
(***************************************************************************)
PlaceIds == { places[i].id : i \in DOMAIN places }
AlertIds == { activeAlerts[i].placeId : i \in DOMAIN activeAlerts }

\* IsInside with the boundary left out
IsInsideStrict(loc, place) == calculateDistance(loc, place.location) < place.radius

\* distance <= place.radius
IsInside(loc, place) == calculateDistance(loc, place.location) <= place.radius

\* IsSnoozed with the comparison turned round
IsSnoozedReversed(id, t) ==
    /\ id \in DOMAIN snoozedPlaceIds
    /\ snoozedPlaceIds[id] # 0
    /\ snoozedPlaceIds[id] < t

\* IsSnoozed with the expiry itself counted as snoozed
IsSnoozedAtExpiry(id, t) ==
    /\ id \in DOMAIN snoozedPlaceIds
    /\ snoozedPlaceIds[id] # 0
    /\ snoozedPlaceIds[id] >= t

\* snoozeExpiry && snoozeExpiry > now
IsSnoozed(id, t) ==
    /\ id \in DOMAIN snoozedPlaceIds
    /\ snoozedPlaceIds[id] # 0
    /\ snoozedPlaceIds[id] > t

\* activeAlerts.some(a => a.placeId === place.id)
IsAlertActive(id) == \E i \in DOMAIN activeAlerts : activeAlerts[i].placeId = id

\* FilterAlerts that keeps no alert at all
FilterAlertsAll(alerts, id) == << >>

\* prev.filter(a => a.placeId !== id)
FilterAlerts(alerts, id) == SelectSeq(alerts, LAMBDA a : a.placeId # id)

\* DeleteKey with the delete left out
KeepKey(f, id) == f

\* delete next[id]
DeleteKey(f, id) == [ x \in (DOMAIN f) \ {id} |-> f[x] ]

\* {...prev, [id]: v}
SetKey(f, id, v) == [ x \in (DOMAIN f) \cup {id} |-> IF x = id THEN v ELSE f[x] ]

\* prev.map(p => p.id === id ? f(p) : p), where updated[i] is f(list[i])
MapPlaces(list, id, updated) ==
    [ i \in DOMAIN list |-> IF list[i].id = id THEN updated[i] ELSE list[i] ]

(***************************************************************************)
(* The proximity effect (App.tsx 155-208).  Every decision reads the state *)
(* of the render the effect belongs to; the updates are queued and applied *)
(* in the order of the places.                                             *)
(***************************************************************************)
\* ShouldAlert without the two checks against a repeated alert
ShouldAlertEveryTime(place) ==
    /\ ~place.isCompleted
    /\ IsInside(userLocation, place)
    /\ ~IsSnoozed(place.id, dateNow)

\* ShouldAlert without the check of the alerts on display
ShouldAlertDespiteCard(place) ==
    /\ ~place.isCompleted
    /\ IsInside(userLocation, place)
    /\ ~IsSnoozed(place.id, dateNow)
    /\ place.id \notin alertedPlaceIds

\* the place passes the three checks and an alert is created for it
ShouldAlert(place) ==
    /\ ~place.isCompleted
    /\ IsInside(userLocation, place)
    /\ ~IsSnoozed(place.id, dateNow)
    /\ place.id \notin alertedPlaceIds
    /\ ~IsAlertActive(place.id)

\* the place is left and its alerted flag is reset
ShouldReset(place) ==
    /\ ~place.isCompleted
    /\ ~IsInside(userLocation, place)
    /\ place.id \in alertedPlaceIds

NewAlert(place) ==
    [ placeId |-> place.id, message |-> AlertMessage(place.name), timestamp |-> dateNow ]

\* places.forEach from place i on; acc holds the queued updates applied so far
RECURSIVE ForEachPlace(_, _)
ForEachPlace(i, acc) ==
    IF i > Len(places) THEN acc
    ELSE LET place == places[i]
             next == IF ShouldAlert(place)
                     THEN [ alerts  |-> Append(acc.alerts, NewAlert(place)),
                            alerted |-> acc.alerted \cup {place.id},
                            changed |-> TRUE ]
                     ELSE IF ShouldReset(place)
                     THEN [ alerts  |-> acc.alerts,
                            alerted |-> acc.alerted \ {place.id},
                            changed |-> TRUE ]
                     ELSE acc
         IN  ForEachPlace(i + 1, next)

\* the history of one place after an evaluation that created alerts for newIds
ObsEval(o, place, newIds) ==
    IF userLocation = NullCoord \/ place.isCompleted
    THEN [ o EXCEPT !.mv = IF @ \in {"moved", "movedDirty"} THEN "no" ELSE @ ]
    ELSE IF IsInside(userLocation, place)
    THEN LET entry == o.lastEval # "in"
             fired == place.id \in newIds
             n     == IF fired THEN 1 ELSE 0
             isFresh == /\ ~IsAlertActive(place.id)
                        /\ place.id \notin alertedPlaceIds
                        /\ ~IsSnoozed(place.id, dateNow)
             expired == /\ place.id \in DOMAIN snoozedPlaceIds
                        /\ dateNow >= snoozedPlaceIds[place.id]
         IN  [ id         |-> o.id,
               ai         |-> o.ai,
               first      |-> IF o.first = "pending" THEN "done" ELSE "no",
               lastEval   |-> "in",
               evals      |-> IF entry THEN 1 ELSE Min(3, o.evals + 1),
               alerts     |-> IF entry THEN n ELSE Min(2, o.alerts + n),
               fresh      |-> IF entry THEN isFresh ELSE o.fresh,
               entryAlert |-> IF entry THEN fired ELSE o.entryAlert,
               act        |-> IF entry THEN "none" ELSE o.act,
               prevAlert  |-> IF entry THEN o.prevAlert ELSE FALSE,
               dis        |-> IF o.dis = "quiet" /\ fired THEN "realert" ELSE o.dis,
               snz        |-> IF o.snz = "wait" /\ expired
                              THEN (IF fired THEN "hit" ELSE "miss")
                              ELSE o.snz,
               mv         |-> CASE o.mv = "moved" -> IF fired THEN "hit" ELSE "miss"
                                [] o.mv = "movedDirty" -> IF fired THEN "hitDirty" ELSE "miss"
                                [] OTHER -> o.mv ]
    ELSE [ id         |-> o.id,
           ai         |-> o.ai,
           first      |-> IF o.first = "pending" THEN "done" ELSE "no",
           lastEval   |-> "out",
           evals      |-> 0,
           alerts     |-> 0,
           fresh      |-> FALSE,
           entryAlert |-> FALSE,
           act        |-> "none",
           prevAlert  |-> IF o.lastEval = "in"
                          THEN o.entryAlert /\ o.act # "snooze"
                          ELSE o.prevAlert,
           dis        |-> "no",
           snz        |-> "no",
           mv         |-> "no" ]

\* the history after a step that treats the places with the given id by F
ObsApply(idSet, F(_, _)) ==
    [ k \in DOMAIN obs |->
        IF \E i \in DOMAIN places : places[i].ord = k /\ places[i].id \in idSet
        THEN F(obs[k], (CHOOSE i \in DOMAIN places : places[i].ord = k))
        ELSE obs[k] ]

\* playAlertSound (App.tsx 15-64) on the timers, notifications and tones
\* in s
playAlertSound(s, message) ==
    LET toned == IF audioBlocked THEN s ELSE [ s EXCEPT !.tones = @ + 1 ]
    IN  IF speechAvailable /\ isSpeaking
        THEN toned
        ELSE LET timed == IF speechAvailable
                          THEN [ toned EXCEPT !.timers = Append(@, message) ]
                          ELSE toned
             IN  IF notificationGranted
                 THEN [ timed EXCEPT !.notifications = Append(@, message) ]
                 ELSE timed

\* playAlertSound for the alerts from the j-th on, in the order of the list
RECURSIVE PlayAlerts(_, _, _)
PlayAlerts(alerts, j, s) ==
    IF j > Len(alerts) THEN s
    ELSE PlayAlerts(alerts, j + 1, playAlertSound(s, alerts[j].message))

ProximityCheck ==
    /\ effectPending
    /\ LET out == IF userLocation = NullCoord
                  THEN [ alerts |-> activeAlerts, alerted |-> alertedPlaceIds,
                         changed |-> FALSE ]
                  ELSE ForEachPlace(1, [ alerts  |-> activeAlerts,
                                         alerted |-> alertedPlaceIds,
                                         changed |-> FALSE ])
           newIds == { out.alerts[j].placeId :
                         j \in (Len(activeAlerts) + 1)..Len(out.alerts) }
       IN  /\ activeAlerts' = out.alerts
           /\ alertedPlaceIds' = out.alerted
           /\ effectPending' = out.changed
           /\ obs' = ObsApply(PlaceIds, LAMBDA o, i : ObsEval(o, places[i], newIds))
           /\ LET played == PlayAlerts(out.alerts, Len(activeAlerts) + 1,
                                       [ timers |-> timers,
                                         notifications |-> notifications,
                                         tones |-> tones ])
              IN  /\ timers' = played.timers
                  /\ notifications' = played.notifications
                  /\ tones' = played.tones
    /\ UNCHANGED << dateNow, apiKey, watchVars, deliveryVars, fetchVars, nameVars, searchVars, isSpeaking, utterances, places, userLocation, isLoadingLocation,
                    snoozedPlaceIds, selectedPlaceId, draftVars, editVars, aiCalls, created, events >>

(***************************************************************************)
(* Time and location.                                                      *)
(***************************************************************************)
\* time passes
Tick ==
    /\ events < MaxEvents
    /\ events' = events + 1
    /\ dateNow' = dateNow + TimeStep
    /\ UNCHANGED << apiKey, sideVars, places, userLocation, isLoadingLocation, alertVars,
                    selectedPlaceId, draftVars, editVars, aiCalls, effectPending, created, obs >>

\* no name is being edited
NoRename ==
    /\ editingNameId = Null
    /\ tempName = EmptyStr

\* nothing was searched for yet
NoSearch ==
    /\ searchQuery = EmptyStr
    /\ isSearching = FALSE
    /\ searchResults = << >>
    /\ searchCalls = << >>
    /\ lastSettled = "none"
    /\ searchObs = [ submitted |-> 0, shown |-> 0, clearedAt |-> 0 ]

\* nothing was played yet
NothingPlayed ==
    /\ isSpeaking = FALSE
    /\ timers = << >>
    /\ utterances = << >>
    /\ notifications = << >>
    /\ tones = 0

\* a browser that delivers an alert by none of the three channels
Silent ==
    /\ audioBlocked = TRUE
    /\ speechAvailable = FALSE
    /\ notificationGranted = FALSE
    /\ NothingPlayed

\* getCurrentLocation() at mount (App.tsx 102): the promise has not settled
FetchPending == initialFetch = "pending"

\* startWatcher(true) at mount (App.tsx 145): the first watch, in high accuracy
WatchStarted ==
    /\ registered = { [ id |-> 1, enableHighAccuracy |-> TRUE ] }
    /\ watchId = 1

\* startWatcher (App.tsx 111-142): the watch registered before is cleared,
\* a new one is registered under the next identifier
startWatcher(enableHighAccuracy) ==
    /\ registered' = { w \in registered : w.id # watchId }
                        \cup { [ id |-> watchId + 1, enableHighAccuracy |-> enableHighAccuracy ] }
    /\ watchId' = watchId + 1

\* the success callback of a registered watch (App.tsx 120-123)
WatchPosition(coord) ==
    /\ HandleEvent
    /\ registered # {}
    /\ userLocation' = coord
    /\ isLoadingLocation' = FALSE
    /\ effectPending' = TRUE
    /\ UNCHANGED << dateNow, apiKey, sideVars, places, alertVars, selectedPlaceId, draftVars,
                    editVars, aiCalls, created, obs >>

\* position unavailable (2) and timeout (3), in any mode
RecoverableInAnyMode(enableHighAccuracy, code) == code \in {2, 3}

\* enableHighAccuracy && (err.code === 2 || err.code === 3)
Recoverable(enableHighAccuracy, code) == enableHighAccuracy /\ code \in {2, 3}

\* the error callback of a registered watch (App.tsx 124-137)
WatchError(w, code) ==
    /\ HandleEvent
    /\ w \in registered
    /\ IF Recoverable(w.enableHighAccuracy, code)
       THEN /\ startWatcher(FALSE)
            /\ UNCHANGED isLoadingLocation
       ELSE /\ isLoadingLocation' = FALSE
            /\ UNCHANGED watchVars
    /\ UNCHANGED << dateNow, apiKey, deliveryVars, fetchVars, nameVars, searchVars, soundVars, places, userLocation,
                    alertVars, selectedPlaceId, draftVars, editVars, aiCalls,
                    effectPending, created, obs >>

\* the cleanup clearing the watch that was started at mount
UnmountFirstWatch ==
    /\ HandleEvent
    /\ registered' = { w \in registered : w.id # 1 }
    /\ UNCHANGED << dateNow, apiKey, watchId, deliveryVars, fetchVars, nameVars, searchVars, soundVars, places,
                    userLocation, isLoadingLocation,
                    alertVars, selectedPlaceId, draftVars, editVars, aiCalls,
                    effectPending, created, obs >>

\* the cleanup of the mount effect (App.tsx 147-149); the watch identifier
\* is a variable of the effect and goes with it
Unmount ==
    /\ HandleEvent
    /\ registered' = { w \in registered : w.id # watchId }
    /\ UNCHANGED << dateNow, apiKey, watchId, deliveryVars, fetchVars, nameVars, searchVars, soundVars, places,
                    userLocation, isLoadingLocation,
                    alertVars, selectedPlaceId, draftVars, editVars, aiCalls,
                    effectPending, created, obs >>

(***************************************************************************)
(* Drafts and place creation.                                              *)
(***************************************************************************)
\* NewPlace with the radius left at 0
NewPlaceWithoutRadius(id, name, location, initialNote) ==
    [ id          |-> id,
      name        |-> name,
      location    |-> location,
      category    |-> "Generic",
      radius      |-> 0,
      isCompleted |-> FALSE,
      createdAt   |-> dateNow,
      notes       |-> initialNote,
      ord         |-> created + 1 ]

\* const newPlace: Place = {...}; the field ord numbers the places created
NewPlace(id, name, location, initialNote) ==
    [ id          |-> id,
      name        |-> name,
      location    |-> location,
      category    |-> "Generic",
      radius      |-> PROXIMITY_THRESHOLD_METERS,
      isCompleted |-> FALSE,
      createdAt   |-> dateNow,
      notes       |-> initialNote,
      ord         |-> created + 1 ]

\* userNotes || ""
InitialNote(userNotes) == IF userNotes = Null \/ userNotes = EmptyStr THEN EmptyStr ELSE userNotes

\* givenId || Date.now().toString()
PlaceId(givenId) == IF givenId = Null \/ givenId = EmptyStr THEN toString(dateNow) ELSE givenId

\* handleMapClick that leaves the name and the note of the draft
handleMapClickKeepingText(coord) ==
    /\ ~effectPending
    /\ created < MaxPlaces
    /\ draftLocation' = coord
    /\ selectedPlaceId' = Null
    /\ UNCHANGED << dateNow, apiKey, sideVars, places, userLocation, isLoadingLocation, alertVars,
                    draftName, draftNote, editVars, aiCalls, effectPending, created, events, obs >>

handleMapClick(coord) ==
    /\ ~effectPending
    /\ created < MaxPlaces
    /\ draftLocation' = coord
    /\ draftName' = EmptyStr
    /\ draftNote' = EmptyStr
    /\ selectedPlaceId' = Null
    /\ UNCHANGED << dateNow, apiKey, sideVars, places, userLocation, isLoadingLocation, alertVars,
                    editVars, aiCalls, effectPending, created, events, obs >>

\* draftName.trim() || "New Place"
DraftPlaceName(text) == IF Trim(text) = EmptyStr THEN NewPlaceName ELSE Trim(text)

\* handleAddPlace with the place put behind the others
handleAddPlaceAtEnd(location, name, userNotes, givenId) ==
    LET id == PlaceId(givenId)
        initialNote == InitialNote(userNotes)
    IN  /\ created < MaxPlaces
        /\ places' = Append(places, NewPlace(id, name, location, initialNote))
        /\ aiCalls' = IF apiKey
                      THEN aiCalls \cup { [ ord |-> created + 1, id |-> id, name |-> name,
                                            initialNote |-> initialNote ] }
                      ELSE aiCalls
        /\ created' = created + 1
        /\ obs' = [ k \in 1..(created + 1) |->
                     IF k = created + 1
                     THEN [ ObsInit EXCEPT !.id = id,
                                           !.first = IF userLocation # NullCoord
                                                     THEN "pending" ELSE "no" ]
                     ELSE obs[k] ]
        /\ effectPending' = TRUE

\* handleAddPlace (App.tsx 220-255): the place is put in front; with a
\* credential, the suggestion is requested and settles later
handleAddPlace(location, name, userNotes, givenId) ==
    LET id == PlaceId(givenId)
        initialNote == InitialNote(userNotes)
    IN  /\ created < MaxPlaces
        /\ places' = << NewPlace(id, name, location, initialNote) >> \o places
        /\ aiCalls' = IF apiKey
                      THEN aiCalls \cup { [ ord |-> created + 1, id |-> id, name |-> name,
                                            initialNote |-> initialNote ] }
                      ELSE aiCalls
        /\ created' = created + 1
        /\ obs' = [ k \in 1..(created + 1) |->
                     IF k = created + 1
                     THEN [ ObsInit EXCEPT !.id = id,
                                           !.first = IF userLocation # NullCoord
                                                     THEN "pending" ELSE "no" ]
                     ELSE obs[k] ]
        /\ effectPending' = TRUE

\* ClearDraft with the three buffers left as they are
KeepDraft == UNCHANGED draftVars

\* setDraftLocation(null); setDraftName(""); setDraftNote("")
ClearDraft ==
    /\ draftLocation' = NullCoord
    /\ draftName' = EmptyStr
    /\ draftNote' = EmptyStr

\* the Add Pin button, or Enter in the name field; without a draft the
\* handler returns at once
handleConfirmDraft ==
    /\ ~effectPending
    /\ IF draftLocation = NullCoord
       THEN UNCHANGED vars
       ELSE /\ events < MaxEvents
            /\ events' = events + 1
            /\ ClearDraft
            /\ handleAddPlace(draftLocation, DraftPlaceName(draftName), Trim(draftNote), Null)
            /\ selectedPlaceId' = PlaceId(Null)
            /\ UNCHANGED << dateNow, apiKey, sideVars, userLocation, isLoadingLocation, alertVars,
                            editVars >>

handleCancelDraft ==
    /\ ~effectPending
    /\ draftLocation # NullCoord
    /\ ClearDraft
    /\ UNCHANGED << dateNow, apiKey, sideVars, places, userLocation, isLoadingLocation, alertVars,
                    selectedPlaceId, editVars, aiCalls, effectPending, created, events, obs >>

\* the draft marker is dragged (App.tsx 320-322)
handleDraftMove(newLocation) ==
    /\ ~effectPending
    /\ draftLocation # NullCoord
    /\ draftLocation' = newLocation
    /\ UNCHANGED << dateNow, apiKey, sideVars, places, userLocation, isLoadingLocation, alertVars,
                    selectedPlaceId, draftName, draftNote, editVars, aiCalls,
                    effectPending, created, events, obs >>

\* the name field of the draft popup (App.tsx 467)
setDraftName(text) ==
    /\ ~effectPending
    /\ draftLocation # NullCoord
    /\ draftName # text
    /\ draftName' = text
    /\ UNCHANGED << dateNow, apiKey, sideVars, places, userLocation, isLoadingLocation, alertVars,
                    selectedPlaceId, draftLocation, draftNote, editVars, aiCalls,
                    effectPending, created, events, obs >>

\* the note field of the draft popup (App.tsx 476)
setDraftNote(text) ==
    /\ ~effectPending
    /\ draftLocation # NullCoord
    /\ draftNote # text
    /\ draftNote' = text
    /\ UNCHANGED << dateNow, apiKey, sideVars, places, userLocation, isLoadingLocation, alertVars,
                    selectedPlaceId, draftLocation, draftName, editVars, aiCalls,
                    effectPending, created, events, obs >>

(***************************************************************************)
(* Place mutations.                                                        *)
(***************************************************************************)
ObsMove(o, i) ==
    [ ObsInit EXCEPT !.id = o.id, !.ai = o.ai, !.mv =
        IF \/ places[i].id \in DOMAIN snoozedPlaceIds
           \/ places[i].id \in alertedPlaceIds
           \/ IsAlertActive(places[i].id)
        THEN "movedDirty" ELSE "moved" ]

handlePlaceMove(id, newLocation) ==
    /\ HandleEvent
    /\ id \in PlaceIds
    /\ places' = MapPlaces(places, id,
                           [ i \in DOMAIN places |->
                               [ places[i] EXCEPT !.location = newLocation ] ])
    /\ alertedPlaceIds' = alertedPlaceIds \ {id}
    /\ snoozedPlaceIds' = DeleteKey(snoozedPlaceIds, id)
    /\ activeAlerts' = FilterAlerts(activeAlerts, id)
    /\ obs' = ObsApply({id}, ObsMove)
    /\ effectPending' = TRUE
    /\ UNCHANGED << dateNow, apiKey, sideVars, userLocation, isLoadingLocation, selectedPlaceId,
                    draftVars, editVars, aiCalls, created >>

handleToggleTask(id) ==
    /\ HandleEvent
    /\ id \in PlaceIds
    /\ places' = MapPlaces(places, id,
                           [ i \in DOMAIN places |->
                               [ places[i] EXCEPT !.isCompleted = ~places[i].isCompleted ] ])
    /\ effectPending' = TRUE
    /\ UNCHANGED << dateNow, apiKey, sideVars, userLocation, isLoadingLocation, alertVars,
                    selectedPlaceId, draftVars, editVars, aiCalls, created, obs >>

\* handleDeleteTask with the selection left as it is
handleDeleteTaskKeepingSelection(id) ==
    /\ HandleEvent
    /\ id \in PlaceIds
    /\ places' = SelectSeq(places, LAMBDA p : p.id # id)
    /\ UNCHANGED selectedPlaceId
    /\ effectPending' = TRUE
    /\ UNCHANGED << dateNow, apiKey, sideVars, userLocation, isLoadingLocation, alertVars,
                    draftVars, editVars, aiCalls, created, obs >>

\* handleDeleteTask (App.tsx 330-333)
handleDeleteTask(id) ==
    /\ HandleEvent
    /\ id \in PlaceIds
    /\ places' = SelectSeq(places, LAMBDA p : p.id # id)
    /\ selectedPlaceId' = IF selectedPlaceId = id THEN Null ELSE selectedPlaceId
    /\ effectPending' = TRUE
    /\ UNCHANGED << dateNow, apiKey, sideVars, userLocation, isLoadingLocation, alertVars,
                    draftVars, editVars, aiCalls, created, obs >>

(***************************************************************************)
(* Alert responses.                                                        *)
(***************************************************************************)
ObsDismiss(o, i) ==
    [ o EXCEPT !.act = IF @ = "snooze" THEN @ ELSE "dismiss",
               !.dis = IF userLocation # NullCoord /\ IsInside(userLocation, places[i])
                       THEN "quiet" ELSE "no" ]

handleDismissAlert(placeId) ==
    /\ HandleEvent
    /\ placeId \in AlertIds
    /\ activeAlerts' = FilterAlerts(activeAlerts, placeId)
    /\ obs' = ObsApply({placeId}, ObsDismiss)
    /\ effectPending' = TRUE
    /\ UNCHANGED << dateNow, apiKey, sideVars, places, userLocation, isLoadingLocation,
                    alertedPlaceIds, snoozedPlaceIds, selectedPlaceId, draftVars, editVars,
                    aiCalls, created >>

ObsSnooze(o, i) ==
    [ o EXCEPT !.act = "snooze",
               !.prevAlert = FALSE,
               !.dis = "no",
               !.snz = IF userLocation # NullCoord /\ IsInside(userLocation, places[i])
                       THEN "wait" ELSE "no" ]

handleSnoozeAlert(placeId) ==
    /\ HandleEvent
    /\ placeId \in AlertIds
    /\ snoozedPlaceIds' = SetKey(snoozedPlaceIds, placeId, dateNow + SNOOZE_DURATION)
    /\ activeAlerts' = FilterAlerts(activeAlerts, placeId)
    /\ alertedPlaceIds' = alertedPlaceIds \ {placeId}
    /\ obs' = ObsApply({placeId}, ObsSnooze)
    /\ effectPending' = TRUE
    /\ UNCHANGED << dateNow, apiKey, sideVars, places, userLocation, isLoadingLocation,
                    selectedPlaceId, draftVars, editVars, aiCalls, created >>

(***************************************************************************)
(* The alert lifecycle: no AI credential is configured.                    *)
(***************************************************************************)
\* identifiers Date.now().toString() can take within the bound of the clock
Ids == { toString(k * TimeStep) : k \in 0..MaxEvents }

Init ==
    /\ dateNow = 0
    /\ apiKey = FALSE
    /\ WatchStarted
    /\ Silent
    /\ NoSearch
    /\ NoRename
    /\ FetchPending
    /\ places = << >>
    /\ userLocation = NullCoord
    /\ isLoadingLocation = TRUE
    /\ activeAlerts = << >>
    /\ alertedPlaceIds = {}
    /\ snoozedPlaceIds = << >>
    /\ selectedPlaceId = Null
    /\ draftLocation = NullCoord
    /\ draftName = EmptyStr
    /\ draftNote = EmptyStr
    /\ editingNoteId = Null
    /\ tempNote = EmptyStr
    /\ aiCalls = {}
    /\ effectPending = FALSE
    /\ created = 0
    /\ events = 0
    /\ obs = << >>

Next ==
    \/ Tick
    \/ \E coord \in Coords : WatchPosition(coord)
    \/ \E coord \in PlaceCoords : handleMapClick(coord)
    \/ handleConfirmDraft
    \/ \E id \in Ids, coord \in PlaceCoords : handlePlaceMove(id, coord)
    \/ \E id \in Ids : handleToggleTask(id)
    \/ \E id \in Ids : handleDeleteTask(id)
    \/ \E id \in Ids : handleDismissAlert(id)
    \/ \E id \in Ids : handleSnoozeAlert(id)
    \/ ProximityCheck

Spec == Init /\ [][Next]_vars

\* the same, with fairness: time passes, and React runs an effect that is pending
SpecFair == Init /\ [][Next]_vars /\ WF_vars(Tick) /\ WF_vars(ProximityCheck)

(***************************************************************************)
(* AI enrichment and the notes editor: an AI credential is configured.     *)
(* The user's location is never received, so that no alert is created.     *)
(***************************************************************************)
\* notes the user types, and notes and categories the model suggests
DraftNotes == { EmptyStr, << "u" >> }
EditedNotes == { EmptyStr, << "e" >> }
Suggestions == [ category : { "Food" }, suggestedNote : { << "a", "i" >>, EmptyStr } ]
\* where the places are put when one location is enough
DraftCoord == [ lat |-> 0, lng |-> 0 ]

\* what generateContent does: it returns a text that parses to a
\* suggestion, returns no text, or throws
Responses ==
    { [ kind |-> "text", value |-> v ] : v \in Suggestions }
        \cup { [ kind |-> k, value |-> [ category |-> "Generic", suggestedNote |-> EmptyStr ] ]
                 : k \in { "noText", "throws" } }

NoEnhancement == [ category |-> "null", suggestedNote |-> Null ]

\* suggestCategoryAndNotes with no value for a failure either
suggestCategoryAndNotesAbsent(response) ==
    CASE response.kind = "text" -> response.value
      [] OTHER -> NoEnhancement

\* suggestCategoryAndNotes (geminiService.ts 10-38): the value its promise
\* resolves to
suggestCategoryAndNotes(response) ==
    CASE response.kind = "text"   -> response.value
      [] response.kind = "noText" -> NoEnhancement
      [] OTHER -> [ category |-> "Generic", suggestedNote |-> EmptyStr ]

\* the .then callback of handleAddPlace (App.tsx 240-251)
Enhance(call, enhancement) ==
    MapPlaces(places, call.id,
              [ i \in DOMAIN places |->
                  [ places[i] EXCEPT !.category = enhancement.category,
                                     !.notes = IF call.initialNote # EmptyStr
                                               THEN call.initialNote
                                               ELSE enhancement.suggestedNote ] ])

SuggestionSettles(call, response) ==
    LET enhancement == suggestCategoryAndNotes(response)
    IN  /\ HandleEvent
        /\ call \in aiCalls
        /\ aiCalls' = aiCalls \ {call}
        /\ IF enhancement # NoEnhancement
           THEN /\ places' = Enhance(call, enhancement)
                /\ effectPending' = TRUE
           ELSE UNCHANGED << places, effectPending >>
        /\ obs' = [ obs EXCEPT ![call.ord].ai = response.kind ]
        /\ UNCHANGED << dateNow, apiKey, sideVars, userLocation, isLoadingLocation, alertVars,
                        selectedPlaceId, draftVars, editVars, created >>

\* a marker or a task of the list is clicked (App.tsx 395, 411)
onPlaceClick(id) ==
    /\ ~effectPending
    /\ id \in PlaceIds
    /\ selectedPlaceId # id
    /\ selectedPlaceId' = id
    /\ UNCHANGED << dateNow, apiKey, sideVars, places, userLocation, isLoadingLocation, alertVars,
                    draftVars, editVars, aiCalls, effectPending, created, events, obs >>

\* places.find(p => p.id === selectedPlaceId) (App.tsx 361): its index, or 0
SelectedIndex ==
    IF \E i \in DOMAIN places : places[i].id = selectedPlaceId
    THEN CHOOSE i \in DOMAIN places :
             /\ places[i].id = selectedPlaceId
             /\ \A j \in 1..(i - 1) : places[j].id # selectedPlaceId
    ELSE 0

\* the details panel is shown (App.tsx 499)
PanelShown == SelectedIndex # 0 /\ draftLocation = NullCoord

\* the Edit button of the notes section (App.tsx 568-577)
EditNote ==
    /\ HandleEvent
    /\ PanelShown
    /\ editingNoteId # places[SelectedIndex].id
    /\ editingNoteId' = places[SelectedIndex].id
    /\ tempNote' = places[SelectedIndex].notes
    /\ UNCHANGED << dateNow, apiKey, sideVars, places, userLocation, isLoadingLocation, alertVars,
                    selectedPlaceId, draftVars, aiCalls, effectPending, created, obs >>

\* the text area of the notes section (App.tsx 583-588)
setTempNote(text) ==
    /\ ~effectPending
    /\ PanelShown
    /\ editingNoteId = places[SelectedIndex].id
    /\ tempNote # text
    /\ tempNote' = text
    /\ UNCHANGED << dateNow, apiKey, sideVars, places, userLocation, isLoadingLocation, alertVars,
                    selectedPlaceId, draftVars, editingNoteId, aiCalls, effectPending,
                    created, events, obs >>

\* handleUpdatePlace (App.tsx 335-337), for one updated field
handleUpdatePlace(id, field, value) ==
    MapPlaces(places, id, [ i \in DOMAIN places |-> [ places[i] EXCEPT ![field] = value ] ])

\* the Save button of the notes section (App.tsx 596-604)
SaveNote ==
    /\ HandleEvent
    /\ PanelShown
    /\ editingNoteId = places[SelectedIndex].id
    /\ places' = handleUpdatePlace(places[SelectedIndex].id, "notes", tempNote)
    /\ editingNoteId' = Null
    /\ effectPending' = TRUE
    /\ UNCHANGED << dateNow, apiKey, sideVars, userLocation, isLoadingLocation, alertVars,
                    selectedPlaceId, draftVars, tempNote, aiCalls, created, obs >>

InitAI ==
    /\ dateNow = 0
    /\ apiKey = TRUE
    /\ WatchStarted
    /\ Silent
    /\ NoSearch
    /\ NoRename
    /\ FetchPending
    /\ places = << >>
    /\ userLocation = NullCoord
    /\ isLoadingLocation = TRUE
    /\ activeAlerts = << >>
    /\ alertedPlaceIds = {}
    /\ snoozedPlaceIds = << >>
    /\ selectedPlaceId = Null
    /\ draftLocation = NullCoord
    /\ draftName = EmptyStr
    /\ draftNote = EmptyStr
    /\ editingNoteId = Null
    /\ tempNote = EmptyStr
    /\ aiCalls = {}
    /\ effectPending = FALSE
    /\ created = 0
    /\ events = 0
    /\ obs = << >>

NextAI ==
    \/ Tick
    \/ handleMapClick(DraftCoord)
    \/ \E text \in DraftNotes : setDraftNote(text)
    \/ handleConfirmDraft
    \/ \E id \in Ids : onPlaceClick(id)
    \/ EditNote
    \/ \E text \in EditedNotes : setTempNote(text)
    \/ SaveNote
    \/ \E id \in Ids : handleDeleteTask(id)
    \/ \E call \in aiCalls, response \in Responses : SuggestionSettles(call, response)
    \/ ProximityCheck

SpecAI == InitAI /\ [][NextAI]_vars

(***************************************************************************)
(* The draft popup: no AI credential is configured, the clock stands.      *)
(***************************************************************************)
\* texts typed into the name and the note field
DraftTexts == { EmptyStr, << " ", " " >>, << " ", "a", "\t" >>, << "a", " ", "b" >> }

NextDraft ==
    \/ WatchPosition(DraftCoord)
    \/ \E coord \in PlaceCoords : handleMapClick(coord)
    \/ \E coord \in PlaceCoords : handleDraftMove(coord)
    \/ \E text \in DraftTexts : setDraftName(text)
    \/ \E text \in DraftTexts : setDraftNote(text)
    \/ handleConfirmDraft
    \/ handleCancelDraft
    \/ ProximityCheck

SpecDraft == Init /\ [][NextDraft]_vars

(***************************************************************************)
(* The delivery of an alert: tone, narration, notification.                *)
(***************************************************************************)
\* the callback of setTimeout (App.tsx 47-57): cancel() empties the queue of
\* the synthesis and stops the utterance being spoken, speak() queues the
\* new one.  Whether the utterance that was stopped still gets its end
\* event depends on the browser.
TimerFires ==
    /\ timers # << >>
    /\ timers' = Tail(timers)
    /\ utterances' = << [ message |-> Head(timers), speaking |-> FALSE ] >>
    /\ IF utterances # << >> /\ utterances[1].speaking
       THEN \E ended \in BOOLEAN : isSpeaking' = IF ended THEN FALSE ELSE isSpeaking
       ELSE UNCHANGED isSpeaking
    /\ UNCHANGED << dateNow, apiKey, watchVars, deliveryVars, fetchVars, nameVars, searchVars, notifications, tones, places,
                    userLocation, isLoadingLocation, alertVars, selectedPlaceId, draftVars,
                    editVars, aiCalls, effectPending, created, events, obs >>

\* utterance.onstart (App.tsx 53)
UtteranceStarts ==
    /\ utterances # << >>
    /\ ~utterances[1].speaking
    /\ utterances' = [ utterances EXCEPT ![1].speaking = TRUE ]
    /\ isSpeaking' = TRUE
    /\ UNCHANGED << dateNow, apiKey, watchVars, deliveryVars, fetchVars, nameVars, searchVars, timers, notifications, tones,
                    places, userLocation, isLoadingLocation, alertVars, selectedPlaceId,
                    draftVars, editVars, aiCalls, effectPending, created, events, obs >>

\* utterance.onend (App.tsx 54)
UtteranceEnds ==
    /\ utterances # << >>
    /\ utterances[1].speaking
    /\ utterances' = Tail(utterances)
    /\ isSpeaking' = FALSE
    /\ UNCHANGED << dateNow, apiKey, watchVars, deliveryVars, fetchVars, nameVars, searchVars, timers, notifications, tones,
                    places, userLocation, isLoadingLocation, alertVars, selectedPlaceId,
                    draftVars, editVars, aiCalls, effectPending, created, events, obs >>

\* the browser offers any of the three channels
InitSound ==
    /\ dateNow = 0
    /\ apiKey = FALSE
    /\ WatchStarted
    /\ audioBlocked \in BOOLEAN
    /\ speechAvailable \in BOOLEAN
    /\ notificationGranted \in BOOLEAN
    /\ NothingPlayed
    /\ NoSearch
    /\ NoRename
    /\ FetchPending
    /\ places = << >>
    /\ userLocation = NullCoord
    /\ isLoadingLocation = TRUE
    /\ activeAlerts = << >>
    /\ alertedPlaceIds = {}
    /\ snoozedPlaceIds = << >>
    /\ selectedPlaceId = Null
    /\ draftLocation = NullCoord
    /\ draftName = EmptyStr
    /\ draftNote = EmptyStr
    /\ editingNoteId = Null
    /\ tempNote = EmptyStr
    /\ aiCalls = {}
    /\ effectPending = FALSE
    /\ created = 0
    /\ events = 0
    /\ obs = << >>

NextSound ==
    \/ Tick
    \/ \E coord \in PlaceCoords : WatchPosition(coord)
    \/ handleMapClick(DraftCoord)
    \/ handleConfirmDraft
    \/ ProximityCheck
    \/ TimerFires
    \/ UtteranceStarts
    \/ UtteranceEnds

SpecSound == InitSound /\ [][NextSound]_vars

(***************************************************************************)
(* The search for a place.                                                 *)
(***************************************************************************)
UpperCase == << "A", "B", "C", "D", "E", "F", "G", "H", "I", "J", "K", "L", "M",
                "N", "O", "P", "Q", "R", "S", "T", "U", "V", "W", "X", "Y", "Z" >>
LowerCase == << "a", "b", "c", "d", "e", "f", "g", "h", "i", "j", "k", "l", "m",
                "n", "o", "p", "q", "r", "s", "t", "u", "v", "w", "x", "y", "z" >>

\* the letter a comparison under the flag i is made with
ToLower(ch) ==
    IF \E k \in DOMAIN UpperCase : UpperCase[k] = ch
    THEN LowerCase[CHOOSE k \in DOMAIN UpperCase : UpperCase[k] = ch]
    ELSE ch

\* (near me|nearby|closest|near), in the order of the alternation
FillerPhrases ==
    << << "n", "e", "a", "r", " ", "m", "e" >>,
       << "n", "e", "a", "r", "b", "y" >>,
       << "c", "l", "o", "s", "e", "s", "t" >>,
       << "n", "e", "a", "r" >> >>

\* the phrase stands in s from position i on, whatever the case of the letters
MatchesAt(s, i, phrase) ==
    /\ i + Len(phrase) - 1 <= Len(s)
    /\ \A k \in DOMAIN phrase : ToLower(s[i + k - 1]) = phrase[k]

\* the length of what \s+ takes from position i on; 0 when it does not match
RECURSIVE WhiteRun(_, _)
WhiteRun(s, i) ==
    IF i <= Len(s) /\ IsWhiteSpace(s[i]) THEN 1 + WhiteRun(s, i + 1) ELSE 0

\* the phrase of index n ends a match when it stands at position start and
\* (\s+|$) matches behind it
PhraseMatches(s, start, n) ==
    /\ MatchesAt(s, start, FillerPhrases[n])
    /\ \/ WhiteRun(s, start + Len(FillerPhrases[n])) > 0
       \/ start + Len(FillerPhrases[n]) = Len(s) + 1

\* the position behind the match of /(\s+|^)(near me|nearby|closest|near)(\s+|$)/i
\* that starts at position p; 0 when none starts there
MatchEnd(s, p) ==
    LET lead  == WhiteRun(s, p)
        start == p + lead
    IN  IF (lead > 0 \/ p = 1) /\ \E n \in DOMAIN FillerPhrases : PhraseMatches(s, start, n)
        THEN LET n == CHOOSE m \in DOMAIN FillerPhrases :
                        /\ PhraseMatches(s, start, m)
                        /\ \A l \in 1..(m - 1) : ~PhraseMatches(s, start, l)
                 behind == start + Len(FillerPhrases[n])
             IN  behind + WhiteRun(s, behind)
        ELSE 0

\* String.prototype.replace with the flag g and the replacement ' ', from
\* position p on: the matches are taken from left to right, each search
\* starting behind the match before
RECURSIVE ReplaceFillers(_, _)
ReplaceFillers(s, p) ==
    IF p > Len(s) THEN << >>
    ELSE IF MatchEnd(s, p) > 0
    THEN << " " >> \o ReplaceFillers(s, MatchEnd(s, p))
    ELSE << s[p] >> \o ReplaceFillers(s, p + 1)

\* const cleanedQuery (types.ts 100)
CleanedQuery(query) == Trim(ReplaceFillers(query, 1))

\* what Photon knows: a list of features
Cafe == [ name |-> << "C", "a", "f", "e" >>, city |-> << "R", "o", "m", "e" >>,
          lat |-> 0, lon |-> 0 ]
FeatureLists == { << >>, << Cafe >> }

\* what becomes of a request: fetch rejects (network error, abort), the
\* status is not a success, the body is not JSON, the JSON has no list of
\* features, a feature lacks its properties or its geometry, or the
\* response is the one of the provider
SearchFailures == { "networkError", "aborted", "httpError", "badJson", "noFeatures",
                    "badFeature" }
SearchResponses ==
    [ kind : SearchFailures, features : { << >> } ]
        \cup [ kind : { "ok" }, features : FeatureLists ]

\* the feature as a SearchResult (types.ts 117-138)
ToSearchResult(feature) ==
    [ display_name |-> IF feature.city # EmptyStr /\ feature.city # feature.name
                       THEN feature.name \o << ",", " " >> \o feature.city
                       ELSE feature.name,
      lat |-> toString(feature.lat),
      lon |-> toString(feature.lon) ]

\* the try block from the fetch on (types.ts 110-138)
TryFetch(response) ==
    IF response.kind \in SearchFailures
    THEN [ threw |-> TRUE, value |-> << >> ]
    ELSE [ threw |-> FALSE,
           value |-> [ j \in DOMAIN response.features |->
                         ToSearchResult(response.features[j]) ] ]

\* searchPlaces without its catch block
searchPlacesUncaught(response) ==
    [ rejected |-> TryFetch(response).threw, value |-> TryFetch(response).value ]

\* how the promise of searchPlaces settles once the request has settled;
\* the catch block (types.ts 140-147) returns []
searchPlaces(response) ==
    IF TryFetch(response).threw
    THEN [ rejected |-> FALSE, value |-> << >> ]
    ELSE [ rejected |-> FALSE, value |-> TryFetch(response).value ]

\* handleSearch up to the await (App.tsx 212-214) and searchPlaces up to its
\* fetch (types.ts 98-110); with nothing left of the query searchPlaces
\* returns [] at once and handleSearch runs to its end
handleSearch(query) ==
    /\ HandleEvent
    /\ IF CleanedQuery(query) = EmptyStr
       THEN /\ searchResults' = << >>
            /\ isSearching' = FALSE
            /\ lastSettled' = "noRequest"
            /\ searchObs' = [ searchObs EXCEPT !.submitted = @ + 1,
                                               !.shown = searchObs.submitted + 1 ]
            /\ UNCHANGED searchCalls
       ELSE /\ isSearching' = TRUE
            /\ searchCalls' = Append(searchCalls,
                                     [ q |-> CleanedQuery(query), near |-> userLocation,
                                       n |-> searchObs.submitted + 1 ])
            /\ searchObs' = [ searchObs EXCEPT !.submitted = @ + 1 ]
            /\ UNCHANGED << searchResults, lastSettled >>
    /\ UNCHANGED << dateNow, apiKey, watchVars, deliveryVars, fetchVars, nameVars, soundVars, searchQuery, places,
                    userLocation, isLoadingLocation, alertVars, selectedPlaceId, draftVars,
                    editVars, aiCalls, effectPending, created, obs >>

\* Sidebar, handleSearchSubmit
handleSearchSubmit ==
    /\ Trim(searchQuery) # EmptyStr
    /\ handleSearch(searchQuery)

\* Sidebar, the onChange of the search box
setSearchQuery(text) ==
    /\ HandleEvent
    /\ searchQuery' = text
    /\ UNCHANGED << dateNow, apiKey, watchVars, deliveryVars, fetchVars, nameVars, soundVars, isSearching,
                    searchResults, searchCalls, lastSettled, searchObs, places, userLocation,
                    isLoadingLocation, alertVars, selectedPlaceId, draftVars, editVars,
                    aiCalls, effectPending, created, obs >>

\* the request of index j settles and handleSearch goes on behind its await
\* (App.tsx 215-216)
SearchSettles(j, response) ==
    /\ j \in DOMAIN searchCalls
    /\ searchCalls' = SubSeq(searchCalls, 1, j - 1)
                        \o SubSeq(searchCalls, j + 1, Len(searchCalls))
    /\ lastSettled' = response.kind
    /\ IF searchPlaces(response).rejected
       THEN UNCHANGED << searchResults, isSearching, searchObs >>
       ELSE /\ searchResults' = searchPlaces(response).value
            /\ isSearching' = FALSE
            /\ searchObs' = [ searchObs EXCEPT !.shown = searchCalls[j].n ]
    /\ UNCHANGED << dateNow, apiKey, watchVars, deliveryVars, fetchVars, nameVars, soundVars, searchQuery, places,
                    userLocation, isLoadingLocation, alertVars, selectedPlaceId, draftVars,
                    editVars, aiCalls, effectPending, created, events, obs >>

\* what is typed into the search box
SearchTexts ==
    { << "p", "i", "z", "z", "a", " ", "n", "e", "a", "r", " ", "m", "e" >>,
      << "n", "e", "a", "r", "b", "y" >>,
      << " " >> }

NextSearch ==
    \/ \E text \in SearchTexts : setSearchQuery(text)
    \/ handleSearchSubmit
    \/ \E j \in 1..MaxEvents, response \in SearchResponses : SearchSettles(j, response)
    \/ \E coord \in PlaceCoords : WatchPosition(coord)
    \/ ProximityCheck

SpecSearch == Init /\ [][NextSearch]_vars

\* the queries the cleaning is checked on: up to MaxWords words, one space
\* between two of them
MaxWords == 3
Words ==
    { EmptyStr,
      << "n", "e", "a", "r" >>,
      << "m", "e" >>,
      << "n", "e", "a", "r", "b", "y" >>,
      << "c", "l", "o", "s", "e", "s", "t" >>,
      << "N", "e", "A", "R" >>,
      << "l", "i", "n", "e", "a", "r" >>,
      << "p", "i", "z", "z", "a" >> }

RECURSIVE Join(_)
Join(words) ==
    IF Len(words) = 0 THEN EmptyStr
    ELSE IF Len(words) = 1 THEN words[1]
    ELSE words[1] \o << " " >> \o Join(Tail(words))

Queries == { Join(words) : words \in UNION { [ 1..n -> Words ] : n \in 1..MaxWords } }

\* the search box holds any of the queries
InitClean ==
    /\ dateNow = 0
    /\ apiKey = FALSE
    /\ WatchStarted
    /\ Silent
    /\ searchQuery \in Queries
    /\ isSearching = FALSE
    /\ searchResults = << >>
    /\ searchCalls = << >>
    /\ lastSettled = "none"
    /\ searchObs = [ submitted |-> 0, shown |-> 0, clearedAt |-> 0 ]
    /\ NoRename
    /\ FetchPending
    /\ places = << >>
    /\ userLocation = NullCoord
    /\ isLoadingLocation = TRUE
    /\ activeAlerts = << >>
    /\ alertedPlaceIds = {}
    /\ snoozedPlaceIds = << >>
    /\ selectedPlaceId = Null
    /\ draftLocation = NullCoord
    /\ draftName = EmptyStr
    /\ draftNote = EmptyStr
    /\ editingNoteId = Null
    /\ tempNote = EmptyStr
    /\ aiCalls = {}
    /\ effectPending = FALSE
    /\ created = 0
    /\ events = 0
    /\ obs = << >>

\* one search at a time, answered by the provider
NextClean ==
    \/ searchCalls = << >> /\ handleSearchSubmit
    \/ SearchSettles(1, [ kind |-> "ok", features |-> << Cafe >> ])

SpecClean == InitClean /\ [][NextClean]_vars

(***************************************************************************)
(* The details panel: radius and name.                                     *)
(***************************************************************************)
\* the digit a character stands for
DigitValue(ch) == CHOOSE d \in 0..9 : DigitChar(d) = ch

\* parseInt of a sequence of decimal digits
RECURSIVE parseInt(_)
parseInt(text) ==
    IF text = << >> THEN 0
    ELSE 10 * parseInt(SubSeq(text, 1, Len(text) - 1)) + DigitValue(text[Len(text)])

\* the values of <input type="range" min="50" max="1000" step="50">
SliderMin == 50
SliderMax == 1000
SliderStep == 50
SliderValues == { r \in SliderMin..SliderMax : (r - SliderMin) % SliderStep = 0 }

\* the positions the slider is put to: below the default radius, the default
\* radius, and the distance of two default radii
SliderPositions == { 150, 200, 400 }

\* the onChange of the radius slider (App.tsx 559)
setRadius(value) ==
    /\ HandleEvent
    /\ PanelShown
    /\ places' = handleUpdatePlace(places[SelectedIndex].id, "radius", parseInt(value))
    /\ effectPending' = TRUE
    /\ UNCHANGED << dateNow, apiKey, sideVars, userLocation, isLoadingLocation, alertVars,
                    selectedPlaceId, draftVars, editVars, aiCalls, created, obs >>

\* the pencil next to the name (App.tsx 521-529)
EditName ==
    /\ HandleEvent
    /\ PanelShown
    /\ editingNameId # places[SelectedIndex].id
    /\ editingNameId' = places[SelectedIndex].id
    /\ tempName' = places[SelectedIndex].name
    /\ UNCHANGED << dateNow, apiKey, watchVars, deliveryVars, fetchVars, soundVars, searchVars, places,
                    userLocation, isLoadingLocation, alertVars, selectedPlaceId, draftVars,
                    editVars, aiCalls, effectPending, created, obs >>

\* the onChange of the name input (App.tsx 511)
setTempName(text) ==
    /\ HandleEvent
    /\ PanelShown
    /\ editingNameId = places[SelectedIndex].id
    /\ tempName' = text
    /\ UNCHANGED << dateNow, apiKey, watchVars, deliveryVars, fetchVars, soundVars, searchVars,
                    editingNameId, places, userLocation, isLoadingLocation, alertVars,
                    selectedPlaceId, draftVars, editVars, aiCalls, effectPending, created, obs >>

\* the check mark next to the name input (App.tsx 513-516)
SaveName ==
    /\ HandleEvent
    /\ PanelShown
    /\ editingNameId = places[SelectedIndex].id
    /\ places' = handleUpdatePlace(places[SelectedIndex].id, "name", tempName)
    /\ editingNameId' = Null
    /\ effectPending' = TRUE
    /\ UNCHANGED << dateNow, apiKey, watchVars, deliveryVars, fetchVars, soundVars, searchVars, tempName,
                    userLocation, isLoadingLocation, alertVars, selectedPlaceId, draftVars,
                    editVars, aiCalls, created, obs >>

\* the name typed into the name input
NameTexts == { << "G", "y", "m" >> }

\* where the user is seen: on the boundary of a place at DraftCoord and a
\* radius further
PanelCoords == [ lat : { 200, 400 }, lng : { 0 } ]

NextPanel ==
    \/ \E coord \in PanelCoords : WatchPosition(coord)
    \/ handleMapClick(DraftCoord)
    \/ handleConfirmDraft
    \/ \E id \in Ids : onPlaceClick(id)
    \/ \E r \in SliderPositions : setRadius(toString(r))
    \/ EditName
    \/ \E text \in NameTexts : setTempName(text)
    \/ SaveName
    \/ \E id \in Ids : handleToggleTask(id)
    \/ \E id \in Ids : handlePlaceMove(id, DraftCoord)
    \/ \E call \in aiCalls, response \in Responses : SuggestionSettles(call, response)
    \/ ProximityCheck

\* the credential of the suggestions is configured
SpecPanel == InitAI /\ [][NextPanel]_vars

(***************************************************************************)
(* The location watch.                                                     *)
(***************************************************************************)
\* PERMISSION_DENIED, POSITION_UNAVAILABLE, TIMEOUT
ErrorCodes == {1, 2, 3}
\* identifiers watchPosition can return within the bound of the events
WatchIds == 1..(MaxEvents + 1)
Watches == [ id : WatchIds, enableHighAccuracy : BOOLEAN ]

NextWatch ==
    \/ \E coord \in Coords : WatchPosition(coord)
    \/ \E w \in Watches, code \in ErrorCodes : WatchError(w, code)
    \/ Unmount
    \/ ProximityCheck

SpecWatch == Init /\ [][NextWatch]_vars

(***************************************************************************)
(* Claims.                                                                 *)
(***************************************************************************)
\* alerts created by the step: the tail the step appended to activeAlerts
AlertsCreated ==
    IF Len(activeAlerts') > Len(activeAlerts)
    THEN { activeAlerts'[j] : j \in (Len(activeAlerts) + 1)..Len(activeAlerts') }
    ELSE {}

\* no other place was created with the identifier of place k
OwnId(k) == \A j \in DOMAIN obs : j # k => obs[j].id # obs[k].id

\* C1: the active-alerts list never holds two alerts with the same place
\* identifier.
C1_NoTwoAlertsOfOnePlace ==
    \A i, j \in DOMAIN activeAlerts :
        i # j => activeAlerts[i].placeId # activeAlerts[j].placeId

\* C2 as stated, for a place with an identifier of its own: a stay of three
\* or more evaluations inside a non-completed place's radius, with no snooze,
\* dismiss or move of the place, creates exactly one alert for the place.
C2_ExactlyOneAlertPerStay ==
    \A k \in DOMAIN obs :
        (OwnId(k) /\ obs[k].lastEval = "in" /\ obs[k].evals >= 3 /\ obs[k].act = "none")
            => obs[k].alerts = 1

\* C2 amended: such a stay creates at most one alert for the place, and
\* exactly one when its first evaluation found no alert card, no alerted flag
\* and no unexpired snooze for the place's identifier.
C2_OneAlertPerFreshStay ==
    \A k \in DOMAIN obs :
        (obs[k].lastEval = "in" /\ obs[k].evals >= 3 /\ obs[k].act = "none")
            => /\ obs[k].alerts <= 1
               /\ obs[k].fresh => obs[k].alerts = 1

C2_Witness ==
    \E k \in DOMAIN obs :
        /\ obs[k].lastEval = "in" /\ obs[k].evals >= 3 /\ obs[k].act = "none"
        /\ obs[k].fresh /\ obs[k].alerts = 1

\* C3, for a place with an identifier of its own: after an alert of the place
\* is dismissed with the user inside the place's radius, no evaluation creates
\* an alert for the place before one has seen the user outside the radius (no
\* snooze or move in between).
C3_NoAlertAfterDismissInside ==
    \A k \in DOMAIN obs : OwnId(k) => obs[k].dis # "realert"

\* C4 as stated, for a place with an identifier of its own: when the user
\* re-enters a place whose previous stay began with an alert, the evaluation of
\* the re-entry creates a second alert.
C4_ReentryAlerts ==
    \A k \in DOMAIN obs :
        (OwnId(k) /\ obs[k].lastEval = "in" /\ obs[k].evals = 1 /\ obs[k].prevAlert)
            => obs[k].alerts = 1

\* C4 amended: the evaluation of the re-entry creates the second alert exactly
\* when it finds no alert card, no alerted flag and no unexpired snooze for
\* the place's identifier.
C4_ReentryAlertsIffFresh ==
    \A k \in DOMAIN obs :
        (obs[k].lastEval = "in" /\ obs[k].evals = 1 /\ obs[k].prevAlert)
            => (obs[k].alerts = 1 <=> obs[k].fresh)

C4_Witness ==
    \E k \in DOMAIN obs :
        /\ obs[k].lastEval = "in" /\ obs[k].evals = 1 /\ obs[k].prevAlert
        /\ obs[k].fresh /\ obs[k].alerts = 1

\* C5: a snooze at time T removes the place's alerts from the list and records
\* the expiry T + 300000; no step creates an alert for a place whose recorded
\* expiry is later than the time of the step.
C5_SnoozeSuppresses ==
    /\ [][ \A id \in Ids : handleSnoozeAlert(id) =>
             /\ \A j \in DOMAIN activeAlerts' : activeAlerts'[j].placeId # id
             /\ id \in DOMAIN snoozedPlaceIds'
             /\ snoozedPlaceIds'[id] = dateNow + 300000 ]_vars
    /\ [][ \A a \in AlertsCreated :
             ~ ( /\ a.placeId \in DOMAIN snoozedPlaceIds
                 /\ dateNow < snoozedPlaceIds[a.placeId] ) ]_vars

\* an evaluation has run with the user inside a snoozed place before the expiry
C5_Witness ==
    \E i \in DOMAIN places :
        /\ ~effectPending
        /\ ~places[i].isCompleted
        /\ userLocation # NullCoord /\ IsInside(userLocation, places[i])
        /\ IsSnoozed(places[i].id, dateNow)
        /\ dateNow > places[i].createdAt
        /\ ~IsAlertActive(places[i].id)

\* C6: the first evaluation at or after the expiry that finds the user still
\* inside the snoozed, non-completed place creates an alert for it.
C6_AlertAfterExpiry ==
    \A k \in DOMAIN obs : obs[k].snz # "miss"

C6_Witness ==
    \E k \in DOMAIN obs : obs[k].snz = "hit"

\* a place snoozed with the user inside, not left, moved or alerted since
C7_Waiting(k) ==
    /\ k \in DOMAIN obs
    /\ obs[k].snz = "wait"
    /\ \E i \in DOMAIN places :
          /\ places[i].ord = k
          /\ ~places[i].isCompleted
          /\ places[i].id \in DOMAIN snoozedPlaceIds
          /\ snoozedPlaceIds[places[i].id] <= dateNow

\* C7: a place snoozed with the user inside is alerted again once the five
\* minutes have passed, whatever else happens or does not happen.
C7_SnoozeEventuallyAlerts ==
    \A k \in 1..MaxPlaces : C7_Waiting(k) ~> ~C7_Waiting(k)

\* C8: right after a move the place has the new location, no snooze expiry,
\* no alerted flag and no alert in the list; and the evaluation after the
\* move alerts for it when the user is inside its radius at the new location
\* and it is not completed.
C8_MoveResets ==
    /\ [][ \A id \in Ids, coord \in Coords : handlePlaceMove(id, coord) =>
             /\ id \notin DOMAIN snoozedPlaceIds'
             /\ id \notin alertedPlaceIds'
             /\ \A j \in DOMAIN activeAlerts' : activeAlerts'[j].placeId # id
             /\ \A i \in DOMAIN places' :
                  places'[i].id = id => places'[i].location = coord ]_vars
    /\ [](\A k \in DOMAIN obs : obs[k].mv # "miss")

\* a place that was snoozed, flagged or shown in an alert was moved and alerted
C8_Witness ==
    \E k \in DOMAIN obs : obs[k].mv = "hitDirty"

\* the place the call was made for, when no other place has its identifier
CallPlace(call, i) == places[i].ord = call.ord /\ OwnId(call.ord)

\* C9: when a call settles with a suggestion, the place it was made for takes
\* the suggested category; its notes are left as they are if it was created
\* with notes, and become the suggested note if it was created without.
C9_EnrichmentKeepsNotes ==
    [][ \A call \in aiCalls, response \in Responses :
          (response.kind = "text" /\ SuggestionSettles(call, response)) =>
              \A i \in DOMAIN places : CallPlace(call, i) =>
                  /\ places'[i].category = response.value.category
                  /\ call.initialNote # EmptyStr => places'[i].notes = places[i].notes
                  /\ call.initialNote = EmptyStr =>
                         places'[i].notes = response.value.suggestedNote ]_vars

\* C10: when a call settles, with a suggestion or with the fallback of a
\* failure, notes the user saved in the details panel since the place was
\* created are still the place's notes.
C10_SavedNotesSurvive ==
    [][ \A call \in aiCalls, response \in Responses :
          SuggestionSettles(call, response) =>
              \A i \in DOMAIN places :
                  (CallPlace(call, i) /\ places[i].notes # call.initialNote) =>
                      places'[i].notes = places[i].notes ]_vars

\* C11: when the call made for a place settles after the place was deleted,
\* the list of places is left as it is.
C11_DeletedPlaceStaysDeleted ==
    [][ \A call \in aiCalls, response \in Responses :
          ( /\ SuggestionSettles(call, response)
            /\ \A i \in DOMAIN places : places[i].ord # call.ord )
              => places' = places ]_vars

\* C12: a failed call resolves to the fallback, and the place it was made for
\* then has category Generic and, if it was created with empty notes, empty
\* notes; a call with no text resolves to nothing and leaves the places as
\* they are.
C12_FailureFallsBack ==
    [][ \A call \in aiCalls, response \in Responses :
          SuggestionSettles(call, response) =>
              /\ response.kind = "throws" =>
                    /\ suggestCategoryAndNotes(response)
                          = [ category |-> "Generic", suggestedNote |-> EmptyStr ]
                    /\ \A i \in DOMAIN places : places[i].ord = call.ord =>
                          /\ places'[i].category = "Generic"
                          /\ call.initialNote = EmptyStr => places'[i].notes = EmptyStr
              /\ response.kind = "noText" =>
                    /\ suggestCategoryAndNotes(response) = NoEnhancement
                    /\ places' = places ]_vars

\* the call of a place created with empty notes has failed
C12_Witness ==
    \E i \in DOMAIN places :
        /\ obs[places[i].ord].ai = "throws"
        /\ places[i].category = "Generic"
        /\ places[i].notes = EmptyStr
        /\ places[i].notes # Null

\* alerts of the list that carry the identifier
AlertsOf(alerts, id) == { j \in DOMAIN alerts : alerts[j].placeId = id }

\* C13: a place created with the user's location known, inside the radius,
\* with no snooze entry and no alerted flag for its identifier, gets exactly
\* one alert by the evaluation that follows its creation: the evaluation
\* adds an alert with its identifier and the list then holds no other alert
\* with it; the creation itself makes that evaluation run.
C13_CreationAlerts ==
    /\ [][ handleConfirmDraft => effectPending' ]_vars
    /\ [][ ProximityCheck =>
             \A i \in DOMAIN places :
                 ( /\ obs[places[i].ord].first = "pending"
                   /\ IsInside(userLocation, places[i])
                   /\ places[i].id \notin DOMAIN snoozedPlaceIds
                   /\ places[i].id \notin alertedPlaceIds )
                     => /\ Cardinality(AlertsOf(activeAlerts', places[i].id)) = 1
                        /\ AlertsOf(activeAlerts, places[i].id) = {} ]_vars

\* t is s without the white space around it
IsTrimOf(t, s) ==
    \E a, b \in 0..Len(s) :
        /\ a + b <= Len(s)
        /\ t = SubSeq(s, a + 1, Len(s) - b)
        /\ \A j \in 1..a : IsWhiteSpace(s[j])
        /\ \A j \in (Len(s) - b + 1)..Len(s) : IsWhiteSpace(s[j])
        /\ t # EmptyStr => ~IsWhiteSpace(t[1]) /\ ~IsWhiteSpace(t[Len(t)])

\* C14: the confirmation of a draft puts one place in front of the list; its
\* name is the draft name without the white space around it, or "New Place"
\* when nothing is left; its notes are the draft note without the white
\* space around it; its location is the draft's location at that moment.
C14_ConfirmCreatesTrimmed ==
    [][ (handleConfirmDraft /\ draftLocation # NullCoord) =>
          /\ Len(places') = Len(places) + 1
          /\ \A i \in DOMAIN places : places'[i + 1] = places[i]
          /\ IF IsTrimOf(EmptyStr, draftName)
             THEN places'[1].name = << "N", "e", "w", " ", "P", "l", "a", "c", "e" >>
             ELSE IsTrimOf(places'[1].name, draftName)
          /\ IsTrimOf(places'[1].notes, draftNote)
          /\ places'[1].location = draftLocation ]_vars

\* a draft with white space around its name and its note was dragged and
\* confirmed
C14_Witness ==
    \E i \in DOMAIN places :
        /\ places[i].name = << "a" >>
        /\ places[i].notes = << "a" >>
        /\ places[i].location.lat = 400

\* C15: a confirmation closes the draft and empties its buffers as it creates
\* the place; a confirmation without a draft changes nothing; a place is only
\* ever created from an open draft, which that closes; and a draft is only
\* opened by a click on the map.
C15_OnePlacePerDraft ==
    /\ [][ (handleConfirmDraft /\ draftLocation # NullCoord) =>
             /\ draftLocation' = NullCoord
             /\ draftName' = EmptyStr
             /\ draftNote' = EmptyStr
             /\ Len(places') = Len(places) + 1 ]_vars
    /\ [][ (handleConfirmDraft /\ draftLocation = NullCoord) => UNCHANGED vars ]_vars
    /\ [][ Len(places') > Len(places) =>
             /\ draftLocation # NullCoord
             /\ draftLocation' = NullCoord
             /\ Len(places') = Len(places) + 1 ]_vars
    /\ [][ (draftLocation = NullCoord /\ draftLocation' # NullCoord) =>
             \E coord \in PlaceCoords : handleMapClick(coord) ]_vars

\* a draft was confirmed and no other opened since
C15_Witness ==
    /\ Len(places) = 1
    /\ created = 1
    /\ draftLocation = NullCoord
    /\ draftName = EmptyStr
    /\ draftNote = EmptyStr
    /\ selectedPlaceId = places[1].id
    /\ ~effectPending

\* the mode of the location watch
WatchMode ==
    IF registered = {} THEN "stopped"
    ELSE IF \E w \in registered : w.enableHighAccuracy THEN "high" ELSE "low"

\* C16: the location watch is the state machine {high, low, stopped}: the
\* first watch is the high-accuracy one and the only other watch ever
\* registered is a low-accuracy one; a new watch is registered only by an
\* error of code 2 or 3 of the high-accuracy watch; every other error
\* leaves the watch as it is; so there is at most one restart and the low
\* mode never goes back to the high one.
C16_WatchStateMachine ==
    /\ [](/\ Cardinality(registered) <= 1
          /\ watchId \in {1, 2}
          /\ watchId = 1 => WatchMode \in {"high", "stopped"}
          /\ watchId = 2 => WatchMode \in {"low", "stopped"})
    /\ [][ /\ watchId' # watchId =>
                /\ WatchMode = "high" /\ WatchMode' = "low"
                /\ \E w \in registered, code \in {2, 3} : WatchError(w, code)
           /\ \A w \in registered, code \in ErrorCodes :
                WatchError(w, code) /\ ~(w.enableHighAccuracy /\ code \in {2, 3})
                    => UNCHANGED watchVars
           /\ WatchMode = "low" => WatchMode' # "high"
           /\ WatchMode = "stopped" => WatchMode' = "stopped" ]_vars

\* the watch was restarted in low accuracy and an error was then handled
\* without a further restart
C16_Witness ==
    /\ watchId = 2
    /\ WatchMode = "low"
    /\ ~isLoadingLocation
    /\ userLocation = NullCoord

\* a narration is scheduled, queued or being spoken
NarrationInFlight == timers # << >> \/ utterances # << >>

\* C17: a narration in flight, waiting for its delay or being spoken, is
\* never cut or replaced by the narration of a later alert: while one is in
\* flight no other narration is scheduled, so an evaluation schedules at
\* most one, and the callback that cancels the queue of the synthesis finds
\* it empty.
C17_NarrationNeverReplaced ==
    [][ /\ Len(timers') > Len(timers) =>
            ~NarrationInFlight /\ Len(timers') = 1
        /\ Len(timers') < Len(timers) => utterances = << >> ]_vars

\* C18: every call of playAlertSound made while notifications are permitted
\* raises one notification with the message of its alert, whatever happens
\* to the tone and to the narration.
C18_EveryCallNotifies ==
    [][ ProximityCheck /\ notificationGranted =>
            notifications' = notifications \o
                [ j \in 1..(Len(activeAlerts') - Len(activeAlerts)) |->
                    activeAlerts'[Len(activeAlerts) + j].message ] ]_vars

\* C19: searchPlaces never fails towards its caller: whenever a request
\* settles, by a network error, an abort, a status that is not a success, a
\* malformed body or a proper response, handleSearch ends with the searching
\* flag cleared and a list of results stored, the empty one after a failure.
C19_SearchNeverFails ==
    [][ Len(searchCalls') < Len(searchCalls) =>
            /\ ~isSearching'
            /\ lastSettled' \in SearchFailures => searchResults' = << >>
            /\ lastSettled' = "ok" =>
                 searchResults' \in { << >>, << ToSearchResult(Cafe) >> } ]_vars

\* a request failed and the search ended with no result
C19_Witness ==
    /\ lastSettled \in SearchFailures
    /\ searchCalls = << >>
    /\ ~isSearching
    /\ searchResults = << >>

\* the text holds a filler phrase as a whole word
HasFiller(text) ==
    \E n \in DOMAIN FillerPhrases, i \in DOMAIN text :
        /\ MatchesAt(text, i, FillerPhrases[n])
        /\ i = 1 \/ IsWhiteSpace(text[i - 1])
        /\ \/ i + Len(FillerPhrases[n]) = Len(text) + 1
           \/ IsWhiteSpace(text[i + Len(FillerPhrases[n])])

\* C20: the text sent to the search provider holds none of the phrases
\* "near me", "nearby", "closest", "near" as a whole word, in any case of
\* the letters and however often and wherever they stand in the query, and
\* it is trimmed and not empty; a query of which nothing is left makes no
\* request and gives the empty list.
C20_NoFillerIsSent ==
    [][ /\ Len(searchCalls') > Len(searchCalls) =>
            /\ ~HasFiller(searchCalls'[Len(searchCalls')].q)
            /\ Trim(searchCalls'[Len(searchCalls')].q) = searchCalls'[Len(searchCalls')].q
            /\ searchCalls'[Len(searchCalls')].q # EmptyStr
        /\ (events' > events /\ Len(searchCalls') = Len(searchCalls)) =>
            /\ searchResults' = << >>
            /\ ~isSearching' ]_vars

\* C21: with the user at distance d of a place that is not completed, an
\* evaluation takes the place as inside exactly when radius >= d, the
\* boundary included; taken as outside, a place with the alerted flag loses
\* it (a radius made smaller than d is an exit); taken as inside with no
\* flag, no card and no snooze entry, it gets an alert and the flag (a
\* radius made large enough again is an entry).
C21_RadiusContainment ==
    [][ (ProximityCheck /\ userLocation # NullCoord) =>
            \A i \in DOMAIN places :
                ~places[i].isCompleted =>
                    LET d  == calculateDistance(userLocation, places[i].location)
                        id == places[i].id
                    IN  /\ obs'[places[i].ord].lastEval =
                               IF places[i].radius >= d THEN "in" ELSE "out"
                        /\ (places[i].radius < d /\ id \in alertedPlaceIds)
                               => id \notin alertedPlaceIds'
                        /\ ( /\ places[i].radius >= d
                             /\ id \notin alertedPlaceIds
                             /\ id \notin DOMAIN snoozedPlaceIds
                             /\ AlertsOf(activeAlerts, id) = {} )
                               => /\ id \in alertedPlaceIds'
                                  /\ AlertsOf(activeAlerts', id) # {} ]_vars

\* a radius enlarged by the slider to the distance of the user has made the
\* place one the user is inside of, and the place was alerted for
C21_Witness ==
    \E i \in DOMAIN places :
        /\ places[i].radius = 400
        /\ userLocation # NullCoord
        /\ calculateDistance(userLocation, places[i].location) = 400
        /\ obs[places[i].ord].lastEval = "in"
        /\ places[i].id \in alertedPlaceIds
        /\ AlertsOf(activeAlerts, places[i].id) # {}

\* C22: no two places of the collection share an identifier.
C22_UniqueIds ==
    \A i, j \in DOMAIN places : i # j => places[i].id # places[j].id

C24_LookupsTotalInjective ==
    /\ DOMAIN CATEGORY_ICONS = PlaceCategory
    /\ DOMAIN CATEGORY_COLORS = PlaceCategory
    /\ \A a, b \in PlaceCategory :
           a # b => /\ CATEGORY_ICONS[a] # CATEGORY_ICONS[b]
                    /\ CATEGORY_COLORS[a] # CATEGORY_COLORS[b]
    /\ \A i, j \in DOMAIN places :
           /\ places[i].category \in DOMAIN CATEGORY_ICONS \cap DOMAIN CATEGORY_COLORS
           /\ places[i].category # places[j].category =>
                  /\ CATEGORY_ICONS[places[i].category] # CATEGORY_ICONS[places[j].category]
                  /\ CATEGORY_COLORS[places[i].category] # CATEGORY_COLORS[places[j].category]

\* the collection holds places of two categories
C24_Witness ==
    \E i, j \in DOMAIN places : places[i].category # places[j].category

\* C25: an evaluation creates no alert for a place that is completed and
\* leaves the alerted flag and the alerts of its identifier as they are,
\* whether the user is inside its radius or outside.
C25_CompletedPlaceIsSkipped ==
    [][ ProximityCheck =>
            \A i \in DOMAIN places :
                places[i].isCompleted =>
                    /\ (places[i].id \in alertedPlaceIds') = (places[i].id \in alertedPlaceIds)
                    /\ \A j \in DOMAIN activeAlerts' :
                           activeAlerts'[j].placeId = places[i].id =>
                               /\ j \in DOMAIN activeAlerts
                               /\ activeAlerts'[j] = activeAlerts[j]
                    /\ AlertsOf(activeAlerts', places[i].id) = AlertsOf(activeAlerts, places[i].id)
      ]_vars

\* C26: an evaluation never removes an alert from the list: the alerts it
\* finds stay, in their order, in front of those it adds; and an alert
\* leaves the list only by the dismissal, the snooze or the move of the
\* place it carries the identifier of.
C26_AlertsLeaveByUserOnly ==
    [][ /\ ProximityCheck =>
            /\ Len(activeAlerts') >= Len(activeAlerts)
            /\ SubSeq(activeAlerts', 1, Len(activeAlerts)) = activeAlerts
        /\ (\E id \in AlertIds : Cardinality(AlertsOf(activeAlerts', id))
                                     < Cardinality(AlertsOf(activeAlerts, id)))
            => \E id \in AlertIds :
                   /\ \/ handleDismissAlert(id)
                      \/ handleSnoozeAlert(id)
                      \/ \E coord \in PlaceCoords : handlePlaceMove(id, coord)
                   /\ activeAlerts' = SelectSeq(activeAlerts, LAMBDA a : a.placeId # id) ]_vars

\* the user has left the radius of a place whose alert is still shown
C26_Witness ==
    \E i \in DOMAIN places :
        /\ userLocation # NullCoord
        /\ ~IsInside(userLocation, places[i])
        /\ obs[places[i].ord].lastEval = "out"
        /\ places[i].id \notin alertedPlaceIds
        /\ AlertsOf(activeAlerts, places[i].id) # {}

\* C27: a map click opens a draft at the coordinate clicked, with an empty
\* name and an empty note, and leaves no place selected; the places, the
\* alerts, the alerted flags and the snoozes stay as they are; on an open
\* draft the click puts the draft to the new coordinate and empties its
\* name and note.
C27_MapClickOpensDraft ==
    [][ \A coord \in PlaceCoords :
            handleMapClick(coord) =>
                /\ draftLocation' = coord
                /\ draftName' = EmptyStr
                /\ draftNote' = EmptyStr
                /\ selectedPlaceId' = Null
                /\ places' = places
                /\ activeAlerts' = activeAlerts
                /\ alertedPlaceIds' = alertedPlaceIds
                /\ snoozedPlaceIds' = snoozedPlaceIds ]_vars

\* a draft opened by a click after a place was created and selected, with
\* an alert shown
C27_Witness ==
    /\ draftLocation # NullCoord
    /\ draftName = EmptyStr
    /\ draftNote = EmptyStr
    /\ selectedPlaceId = Null
    /\ places # << >>
    /\ activeAlerts # << >>

\* C28: a creation puts the new place in front of the others, which keep
\* their order and their fields, as a Generic place of radius 200 that is not
\* completed; its identifier is selected in the same step, while its
\* suggestion is still awaited. The places are always in the order of their
\* creation, the latest first, and no edit, move, toggle or suggestion
\* changes the order.
C28_CreationInFront ==
    /\ [](\A i, j \in DOMAIN places : i < j => places[i].ord > places[j].ord)
    /\ [][ /\ created' = created + 1 =>
                /\ places' = << places'[1] >> \o places
                /\ places'[1].ord = created + 1
                /\ places'[1].category = "Generic"
                /\ places'[1].radius = 200
                /\ places'[1].isCompleted = FALSE
                /\ selectedPlaceId' = places'[1].id
                /\ \E call \in aiCalls' : call.ord = created + 1 /\ call.id = places'[1].id
           /\ Len(places') = Len(places) =>
                \A i \in DOMAIN places : places'[i].ord = places[i].ord ]_vars

\* the older of two places has its suggestion and is completed, and the newer
\* one, still awaiting its own, stands in front of it and is selected
C28_Witness ==
    /\ Len(places) = 2
    /\ places[1].ord = 2
    /\ places[1].category = "Generic"
    /\ selectedPlaceId = places[1].id
    /\ places[2].category # "Generic"
    /\ places[2].isCompleted
    /\ \E call \in aiCalls : call.ord = 2

\* C29: whenever the places become fewer, one identifier was deleted: the
\* places with that identifier are gone, the others are left as they were and
\* in their order, and the selection is emptied if it was that identifier
\* and is otherwise left alone.
C29_DeleteRemovesExactly ==
    [][ Len(places') < Len(places) =>
            \E id \in Ids :
                /\ \E i \in DOMAIN places : places[i].id = id
                /\ places' = SelectSeq(places, LAMBDA p : p.id # id)
                /\ selectedPlaceId' = IF selectedPlaceId = id THEN Null ELSE selectedPlaceId ]_vars

\* the selected one of two places was deleted, the other is left
C29_Witness ==
    /\ created = 2
    /\ Len(places) = 1
    /\ selectedPlaceId = Null
    /\ draftLocation = NullCoord

(***************************************************************************)
(* A search result is chosen: the suggestions are configured, one search   *)
(* at a time is answered by the provider with two features.                *)
(***************************************************************************)
\* the display name as a whole
WholeName(text) == text

\* text.split(',')[0]
RECURSIVE FirstSegment(_)
FirstSegment(text) ==
    IF text = << >> \/ Head(text) = "," THEN << >>
    ELSE << Head(text) >> \o FirstSegment(Tail(text))

NaN == -2

\* the number of the decimal digits that text starts with from position i
\* on, acc being the number read so far
RECURSIVE ReadDigits(_, _, _)
ReadDigits(text, i, acc) ==
    IF i <= Len(text) /\ \E d \in 0..9 : DigitChar(d) = text[i]
    THEN ReadDigits(text, i + 1, 10 * acc + DigitValue(text[i]))
    ELSE acc

\* parseFloat of the numeral of a non-negative integer: white space in front
\* is skipped, the digits are read, what follows them is ignored
parseFloat(text) ==
    LET t == TrimStart(text)
    IN  IF t # << >> /\ \E d \in 0..9 : DigitChar(d) = Head(t)
        THEN ReadDigits(t, 1, 0)
        ELSE NaN

\* a feature without a city whose name holds a comma
Bar == [ name |-> << "B", ",", "1" >>, city |-> EmptyStr, lat |-> 400, lon |-> 0 ]
ResultFeatures == << Cafe, Bar >>

\* the onClick of a result of the list (Sidebar.tsx 67-70):
\* handleSearchResultClick (App.tsx 257-264), then setSearchQuery("")
handleSearchResultClick(result) ==
    LET lat == parseFloat(result.lat)
        lng == parseFloat(result.lon)
        newId == toString(dateNow)
    IN  /\ HandleEvent
        /\ handleAddPlace([ lat |-> lat, lng |-> lng ], FirstSegment(result.display_name),
                          Null, newId)
        /\ searchResults' = << >>
        /\ selectedPlaceId' = newId
        /\ searchQuery' = EmptyStr
        /\ searchObs' = [ searchObs EXCEPT !.clearedAt = searchObs.submitted ]
        /\ UNCHANGED << dateNow, apiKey, watchVars, deliveryVars, fetchVars, nameVars, soundVars,
                        isSearching, searchCalls, lastSettled, userLocation,
                        isLoadingLocation, alertVars, draftVars, editVars >>

NextResult ==
    \/ Tick
    \/ setSearchQuery(<< "p", "i", "z", "z", "a" >>)
    \/ searchCalls = << >> /\ handleSearchSubmit
    \/ SearchSettles(1, [ kind |-> "ok", features |-> ResultFeatures ])
    \/ \E j \in DOMAIN searchResults : handleSearchResultClick(searchResults[j])
    \/ handleMapClick(DraftCoord)
    \/ handleConfirmDraft
    \/ \E call \in aiCalls, response \in Responses : SuggestionSettles(call, response)
    \/ ProximityCheck

SpecResult == InitAI /\ [][NextResult]_vars

\* the text is the text of the place's name followed by nothing or by a comma
IsFirstSegmentOf(name, text) ==
    /\ Len(name) <= Len(text)
    /\ SubSeq(text, 1, Len(name)) = name
    /\ \A i \in DOMAIN name : name[i] # ","
    /\ Len(name) < Len(text) => text[Len(name) + 1] = ","

\* C30: when a search result is chosen, one place is put in front of the
\* places, which stay as they were: its latitude and longitude are the
\* numbers that the result gives as texts, its name is the display name up
\* to its first comma, its notes are empty; the result list is then empty
\* and the place selected is the new place.
C30_ResultBecomesPlace ==
    [][ \A j \in DOMAIN searchResults :
            handleSearchResultClick(searchResults[j]) =>
                /\ places' = << places'[1] >> \o places
                /\ places'[1].ord = created + 1
                /\ toString(places'[1].location.lat) = searchResults[j].lat
                /\ toString(places'[1].location.lng) = searchResults[j].lon
                /\ IsFirstSegmentOf(places'[1].name, searchResults[j].display_name)
                /\ places'[1].notes = EmptyStr
                /\ searchResults' = << >>
                /\ selectedPlaceId' = places'[1].id
                /\ SelectedIndex' = 1 ]_vars

\* the second result was chosen while a place made on the map was there
C30_Witness ==
    /\ Len(places) = 2
    /\ places[1].name = << "B" >>
    /\ places[1].location = [ lat |-> 400, lng |-> 0 ]
    /\ places[1].notes = EmptyStr
    /\ places[2].name = NewPlaceName
    /\ searchResults = << >>
    /\ lastSettled = "ok"
    /\ selectedPlaceId = places[1].id

\* C31: the searching flag is set as long as a search request is in flight,
\* and it is cleared only by a step that leaves no request in flight.
C31_SearchingWhileInFlight ==
    /\ [](searchCalls # << >> => isSearching)
    /\ [][ isSearching /\ ~isSearching' => searchCalls' = << >> ]_vars

\* C32: at most one watch is registered at any time, the restart in low
\* accuracy taking the place of the high-accuracy watch; the teardown leaves
\* no watch registered, and from then on none is registered again and the
\* user location is not changed by a watch.
C32_OneWatchNoneAfterTeardown ==
    /\ [](Cardinality(registered) <= 1)
    /\ [][ /\ watchId' # watchId =>
                /\ registered' = { [ id |-> watchId', enableHighAccuracy |-> FALSE ] }
                /\ \A w \in registered : w.enableHighAccuracy
           /\ Unmount => registered' = {}
           /\ registered = {} =>
                /\ registered' = {}
                /\ userLocation' = userLocation
                /\ \A coord \in Coords : ~WatchPosition(coord) ]_vars

\* a position arrived, the watch was restarted in low accuracy, and the
\* component was torn down
C32_Witness ==
    /\ registered = {}
    /\ watchId = 2
    /\ userLocation # NullCoord

(***************************************************************************)
(* Locating the user: the one-shot fetch, the watch and the skip.          *)
(***************************************************************************)
\* the one-shot fetch resolving with the loading flag left as it is
InitialFetchResolvesStillLoading(coord) ==
    /\ HandleEvent
    /\ initialFetch = "pending"
    /\ initialFetch' = "resolved"
    /\ userLocation' = coord
    /\ UNCHANGED isLoadingLocation
    /\ effectPending' = TRUE
    /\ UNCHANGED << dateNow, apiKey, watchVars, deliveryVars, soundVars, searchVars, nameVars,
                    places, alertVars, selectedPlaceId, draftVars, editVars, aiCalls, created,
                    obs >>

\* getCurrentLocation().then (App.tsx 102-106)
InitialFetchResolves(coord) ==
    /\ HandleEvent
    /\ initialFetch = "pending"
    /\ initialFetch' = "resolved"
    /\ userLocation' = coord
    /\ isLoadingLocation' = FALSE
    /\ effectPending' = TRUE
    /\ UNCHANGED << dateNow, apiKey, watchVars, deliveryVars, soundVars, searchVars, nameVars,
                    places, alertVars, selectedPlaceId, draftVars, editVars, aiCalls, created,
                    obs >>

\* getCurrentLocation().catch (App.tsx 107-109): a warning is logged
InitialFetchRejects ==
    /\ HandleEvent
    /\ initialFetch = "pending"
    /\ initialFetch' = "rejected"
    /\ UNCHANGED << dateNow, apiKey, watchVars, deliveryVars, soundVars, searchVars, nameVars,
                    places, userLocation, isLoadingLocation, alertVars, selectedPlaceId,
                    draftVars, editVars, aiCalls, effectPending, created, obs >>

\* "Skip and use default location" (App.tsx 380-385), shown while loading
SkipLocating ==
    /\ HandleEvent
    /\ isLoadingLocation
    /\ isLoadingLocation' = FALSE
    /\ UNCHANGED << dateNow, apiKey, sideVars, places, userLocation, alertVars,
                    selectedPlaceId, draftVars, editVars, aiCalls, effectPending, created,
                    obs >>

NextLocate ==
    \/ \E coord \in Coords : InitialFetchResolves(coord)
    \/ InitialFetchRejects
    \/ \E coord \in Coords : WatchPosition(coord)
    \/ \E w \in Watches, code \in ErrorCodes : WatchError(w, code)
    \/ SkipLocating
    \/ ProximityCheck

SpecLocate == Init /\ [][NextLocate]_vars

\* C33: the flag "still locating" is set at the start; it is cleared by the
\* one-shot fetch that succeeds, by every position of the watch, by every
\* error of the low-accuracy watch, by an error of the high-accuracy watch
\* of another code than 2 and 3, and by the skip; an error of code 2 or 3 of
\* the high-accuracy watch and the one-shot fetch that fails leave it as it
\* is; once cleared it is never set again.
C33_StillLocatingFlag ==
    /\ isLoadingLocation = TRUE
    /\ [][ /\ \A coord \in Coords :
                InitialFetchResolves(coord) \/ WatchPosition(coord) => ~isLoadingLocation'
           /\ \A w \in Watches, code \in ErrorCodes :
                WatchError(w, code) =>
                    IF w.enableHighAccuracy /\ code \in {2, 3}
                    THEN isLoadingLocation' = isLoadingLocation
                    ELSE ~isLoadingLocation'
           /\ SkipLocating => ~isLoadingLocation'
           /\ InitialFetchRejects => isLoadingLocation' = isLoadingLocation
           /\ ~isLoadingLocation => ~isLoadingLocation' ]_vars

\* the one-shot fetch failed, the high-accuracy watch was restarted, and an
\* error of the low-accuracy watch cleared the flag with no position known
C33_Witness ==
    /\ ~isLoadingLocation
    /\ initialFetch = "rejected"
    /\ watchId = 2
    /\ userLocation = NullCoord
    /\ events = 3

(***************************************************************************)
(* The selection: places are made on the map and from search results,      *)
(* selected, and deleted.                                                  *)
(***************************************************************************)
\* the X of the details panel (App.tsx 532)
closePanel ==
    /\ ~effectPending
    /\ PanelShown
    /\ selectedPlaceId' = Null
    /\ UNCHANGED << dateNow, apiKey, sideVars, places, userLocation, isLoadingLocation, alertVars,
                    draftVars, editVars, aiCalls, effectPending, created, events, obs >>

NextSelect ==
    \/ Tick
    \/ handleMapClick(DraftCoord)
    \/ handleConfirmDraft
    \/ \E id \in Ids : onPlaceClick(id)
    \/ closePanel
    \/ \E id \in Ids : handleDeleteTask(id)
    \/ setSearchQuery(<< "p", "i", "z", "z", "a" >>)
    \/ searchCalls = << >> /\ handleSearchSubmit
    \/ SearchSettles(1, [ kind |-> "ok", features |-> ResultFeatures ])
    \/ \E j \in DOMAIN searchResults : handleSearchResultClick(searchResults[j])
    \/ ProximityCheck

SpecSelect == Init /\ [][NextSelect]_vars

\* C34: the selected identifier is empty or the identifier of a place of
\* the collection.
C34_SelectionIsAPlace ==
    selectedPlaceId = Null \/ \E i \in DOMAIN places : places[i].id = selectedPlaceId

\* of two places with different identifiers the one that was not selected
\* was deleted, and the other is still selected
C34_Witness ==
    /\ created = 2
    /\ Len(places) = 1
    /\ selectedPlaceId = places[1].id
    /\ \E k \in DOMAIN obs : obs[k].id # selectedPlaceId

\* C35: every alert of the list, every identifier of the alerted set and
\* every snooze entry belongs to a place of the collection, so that a
\* deletion leaves none of them behind for the identifier deleted.
C35_AlertsOfPlacesOnly ==
    /\ \A j \in DOMAIN activeAlerts : activeAlerts[j].placeId \in PlaceIds
    /\ alertedPlaceIds \subseteq PlaceIds
    /\ DOMAIN snoozedPlaceIds \subseteq PlaceIds

\* C36: the alerts of the list are alerts of places that are not completed:
\* no place that is completed has an alert with its identifier.
C36_NoAlertOfCompletedPlace ==
    \A j \in DOMAIN activeAlerts : \A i \in DOMAIN places :
        places[i].id = activeAlerts[j].placeId => ~places[i].isCompleted

(***************************************************************************)
(* Searches that overlap, and a result chosen while a search is in flight. *)
(***************************************************************************)
RaceTexts == { << "p", "i", "z", "z", "a" >>, << "b", "a", "r" >> }
RaceResponses == [ kind : { "ok" }, features : { << >>, << Cafe >>, ResultFeatures } ]

NextRace ==
    \/ \E text \in RaceTexts : setSearchQuery(text)
    \/ handleSearchSubmit
    \/ \E j \in 1..MaxEvents, response \in RaceResponses : SearchSettles(j, response)
    \/ \E j \in DOMAIN searchResults : handleSearchResultClick(searchResults[j])
    \/ ProximityCheck

SpecRace == Init /\ [][NextRace]_vars

\* C37: when no search is in flight, the results stored are those of the
\* search submitted last, unless a result was chosen since; and the answer
\* to a search submitted before a result was chosen does not fill the list
\* that the choice has emptied.
C37_LatestSearchWins ==
    /\ []((searchCalls = << >> /\ searchObs.clearedAt < searchObs.submitted)
            => searchObs.shown = searchObs.submitted)
    /\ [][ \A j \in DOMAIN searchCalls :
             (\E response \in RaceResponses : SearchSettles(j, response))
                /\ searchCalls[j].n <= searchObs.clearedAt
                    => searchResults' = << >> ]_vars

(***************************************************************************)
(* The narration guard.  A timeout that is due runs, the synthesis speaks  *)
(* what is queued, and an utterance being spoken comes to its end or       *)
(* fails.                                                                  *)
(***************************************************************************)
\* the utterance being spoken fails: the synthesis sends the event error and,
\* after it, no event end; the utterance has no onerror handler
\* (App.tsx 49-56)
UtteranceFails ==
    /\ utterances # << >>
    /\ utterances[1].speaking
    /\ utterances' = Tail(utterances)
    /\ UNCHANGED << dateNow, apiKey, watchVars, deliveryVars, fetchVars, nameVars, searchVars,
                    isSpeaking, timers, notifications, tones, places, userLocation,
                    isLoadingLocation, alertVars, selectedPlaceId, draftVars, editVars,
                    aiCalls, effectPending, created, events, obs >>

NextNarration ==
    \/ NextSound
    \/ UtteranceFails

SpecNarration ==
    /\ InitSound
    /\ [][NextNarration]_vars
    /\ WF_vars(ProximityCheck)
    /\ WF_vars(TimerFires)
    /\ WF_vars(UtteranceStarts)
    /\ WF_vars(UtteranceEnds \/ UtteranceFails)

\* an utterance is being spoken
Speaking == utterances # << >> /\ utterances[1].speaking

\* C38: the narration guard is set exactly while an utterance is being
\* spoken, and whenever it is set it is cleared later, also when the
\* narration was cut off by the callback of a later alert.
C38_GuardFollowsNarration ==
    /\ [](isSpeaking <=> Speaking)
    /\ [](isSpeaking => <>(~isSpeaking))

\* the snooze expiry stored for the identifier, or 0 for none
SnoozeOf(snoozed, id) == IF id \in DOMAIN snoozed THEN snoozed[id] ELSE 0

\* C39: a dismissal, a snooze or a move of a place leaves the alerts, the
\* alerted flag and the snooze expiry of every other identifier as they
\* are; the dismissal and the snooze change no place, and the move changes
\* the location of the one place moved and nothing else.
C39_AlertActionsIsolated ==
    [][ \A id \in Ids :
          ( \/ handleDismissAlert(id)
            \/ handleSnoozeAlert(id)
            \/ \E coord \in PlaceCoords : handlePlaceMove(id, coord) ) =>
              /\ SelectSeq(activeAlerts', LAMBDA a : a.placeId # id)
                    = SelectSeq(activeAlerts, LAMBDA a : a.placeId # id)
              /\ \A q \in Ids \ {id} :
                    /\ (q \in alertedPlaceIds') = (q \in alertedPlaceIds)
                    /\ SnoozeOf(snoozedPlaceIds', q) = SnoozeOf(snoozedPlaceIds, q)
              /\ Len(places') = Len(places)
              /\ \A i \in DOMAIN places :
                    places'[i] = [ places[i] EXCEPT !.location = places'[i].location ]
              /\ Cardinality({ i \in DOMAIN places : places'[i] # places[i] }) <= 1
              /\ (handleDismissAlert(id) \/ handleSnoozeAlert(id)) => places' = places ]_vars

=============================================================================
